---- MODULE Spec2Model ----
(***************************************************************************)
(* Proxy lifecycle engine of proxy-platform: the quality scorer            *)
(* (services/proxy-pool/scorer) and the intelligent scheduler              *)
(* (services/proxy-pool/scheduler) over their two Redis stores.            *)
(*                                                                         *)
(* Conventions                                                             *)
(*  - text is a sequence of byte values ("1" is <<49>>, ":" is 58);        *)
(*  - a float64 score is the exact fraction <<n, d>> in lowest terms;      *)
(*  - a time.Duration is a number of microseconds;                         *)
(*  - wall-clock time is a number of whole hours, at which the RFC 3339    *)
(*    text the scorer stores (second resolution) parses back exactly;      *)
(*  - a Redis hash is a function whose domain is the set of fields it      *)
(*    holds, the absent key being the function with the empty domain;      *)
(*  - every store call takes an outcome, "ok" or "err"; a call that ends   *)
(*    "err" has changed nothing in the store.                              *)
(***************************************************************************)
EXTENDS Integers, Sequences, FiniteSets, TLC

VARIABLES metrics, zset, now, last, calls, procs

vars == <<metrics, zset, now, last, calls, procs>>

(***************************************************************************)
(* Bounds of the model                                                     *)
(***************************************************************************)
\* calls of the scheduler and the scorer in one behaviour of Spec
MaxCalls == 3
\* calls with failing store calls in one behaviour of SpecFaults
MaxFaultCalls == 2
\* results recorded for the address in one behaviour of SpecScorer
MaxResults == 3
\* advances of the wall clock, each of TickHours hours
MaxTicks == 2
TickHours == 12
\* results recorded for the address in one behaviour of SpecStreak
MaxStreak == 6
\* the hour of the wall clock at which SpecFormula reads its records
ReadHour == 48
\* bytes of an address given to formatProxyIdentifier in SpecIdentifier
MaxAddrLen == 3

(***************************************************************************)
(* Exact arithmetic on fractions <<n, d>>, d > 0, in lowest terms          *)
(***************************************************************************)
Abs(x) == IF x < 0 THEN 0 - x ELSE x

RECURSIVE GCD(_, _)
GCD(a, b) == IF b = 0 THEN a ELSE GCD(b, a % b)

Frac(n, d) ==
    LET g == GCD(Abs(n), d) IN <<n \div g, d \div g>>

FLcm(x, y) == (x[2] \div GCD(x[2], y[2])) * y[2]

FAdd(x, y) ==
    LET l == FLcm(x, y) IN Frac(x[1] * (l \div x[2]) + y[1] * (l \div y[2]), l)

FMul(x, y) ==
    LET a == Frac(x[1], y[2])
        b == Frac(y[1], x[2])
    IN  <<a[1] * b[1], a[2] * b[2]>>

FLeq(x, y) ==
    LET l == FLcm(x, y) IN x[1] * (l \div x[2]) <= y[1] * (l \div y[2])

FLess(x, y) == FLeq(x, y) /\ x # y

FMax(x, y) == IF FLeq(x, y) THEN y ELSE x

FMin(x, y) == IF FLeq(x, y) THEN x ELSE y

FZero == <<0, 1>>

FOne == <<1, 1>>

(***************************************************************************)
(* scorer/types.go: fields, scoring parameters, weights                    *)
(***************************************************************************)
fieldSuccessCount == "success_count"
fieldFailureCount == "failure_count"
fieldTotalLatencyMs == "total_latency_ms"
fieldAnonymityLevel == "anonymity_level"
fieldLastSeenTime == "last_seen_time"
fieldLastSuccessTime == "last_success_time"
fieldConsecutiveFails == "consecutive_fails"

initialScore == <<1, 2>>
maxLatencyMs == 5000
recentHours == 24
maxConsecutiveFails == 5

weightSuccessRate == <<1, 2>>
weightLatency == <<3, 10>>
weightAnonymity == <<3, 20>>
weightStability == <<1, 20>>

Elite == "elite"
Anonymous == "anonymous"
Transparent == "transparent"
Unknown == "unknown"

AnonymityLevels == {Elite, Anonymous, Transparent, Unknown}

AnonymityScores ==
    [l \in AnonymityLevels |->
        CASE l = Elite -> FOne
          [] l = Anonymous -> <<7, 10>>
          [] l = Transparent -> <<3, 10>>
          [] OTHER -> <<1, 10>>]

(***************************************************************************)
(* The inputs the operations are exercised with                            *)
(***************************************************************************)
Addr1 == <<49>>
Addr2 == <<58, 58, 49>>

Addresses == {Addr1, Addr2}

\* providers.ProxyIP: the fields the scheduler reads, and the country the
\* provider reported for it.
Proxies ==
    { [Address |-> Addr1, Port |-> 80, Country |-> "US"],
      [Address |-> Addr1, Port |-> 81, Country |-> "US"],
      [Address |-> Addr2, Port |-> 80, Country |-> "DE"] }

\* time.Duration values, in microseconds
LatencySet == {0 - 6000000, 100500, 6000000}

\* validator.ValidationResult
ValidationResults ==
    [IsAvailable : {TRUE}, Latency : LatencySet, Anonymity : AnonymityLevels]
        \cup [IsAvailable : {FALSE}, Latency : {0}, Anonymity : {Unknown}]

\* the probe results the validator pipeline reports in Spec
ProbeResults ==
    { [IsAvailable |-> TRUE, Latency |-> 100500, Anonymity |-> Elite],
      [IsAvailable |-> TRUE, Latency |-> 6000000, Anonymity |-> Transparent],
      [IsAvailable |-> FALSE, Latency |-> 0, Anonymity |-> Unknown] }

\* scheduler.UsageResult
UsageResults ==
    [Proxy : Proxies, Success : {TRUE}, Latency : LatencySet]
        \cup [Proxy : Proxies, Success : {FALSE}, Latency : {0}]

\* scheduler.ScheduleRequest
ScheduleRequests == [CountryCode : {"", "DE"}, AllowInsecure : BOOLEAN]

Outcomes == {"ok", "err"}

(***************************************************************************)
(* The counter store: one hash per address at proxy:metrics:<address>      *)
(***************************************************************************)
NoHash == [f \in {} |-> 0]

HExists(h) == DOMAIN h # {}

HSet(h, field, v) ==
    [f \in DOMAIN h \cup {field} |-> IF f = field THEN v ELSE h[f]]

\* HINCRBY counts from 0 when the field is absent
HIncrBy(h, field, n) ==
    HSet(h, field, (IF field \in DOMAIN h THEN h[field] ELSE 0) + n)

\* time.Duration.Milliseconds: integer division truncating toward zero
Milliseconds(d) == IF d < 0 THEN 0 - ((0 - d) \div 1000) ELSE d \div 1000

\* updateMetrics adding the latency of a failed result to the total
updateMetricsLatencyOnFailure(h, result, t) ==
    LET h1 == HSet(h, fieldLastSeenTime, t) IN
    IF result.IsAvailable
    THEN LET h2 == HIncrBy(h1, fieldSuccessCount, 1)
             h3 == HIncrBy(h2, fieldTotalLatencyMs, Milliseconds(result.Latency))
             h4 == HSet(h3, fieldLastSuccessTime, t)
             h5 == HSet(h4, fieldAnonymityLevel, result.Anonymity)
         IN  HSet(h5, fieldConsecutiveFails, 0)
    ELSE LET h2 == HIncrBy(h1, fieldFailureCount, 1)
             h3 == HIncrBy(h2, fieldTotalLatencyMs, 1)
         IN  HIncrBy(h3, fieldConsecutiveFails, 1)

\* updateMetrics without the reset of consecutive_fails on a success
updateMetricsNoReset(h, result, t) ==
    LET h1 == HSet(h, fieldLastSeenTime, t) IN
    IF result.IsAvailable
    THEN LET h2 == HIncrBy(h1, fieldSuccessCount, 1)
             h3 == HIncrBy(h2, fieldTotalLatencyMs, Milliseconds(result.Latency))
             h4 == HSet(h3, fieldLastSuccessTime, t)
         IN  HSet(h4, fieldAnonymityLevel, result.Anonymity)
    ELSE LET h2 == HIncrBy(h1, fieldFailureCount, 1)
         IN  HIncrBy(h2, fieldConsecutiveFails, 1)

\* updateMetrics leaving last_success_time as it is on a success
updateMetricsNoSuccessTime(h, result, t) ==
    LET h1 == HSet(h, fieldLastSeenTime, t) IN
    IF result.IsAvailable
    THEN LET h2 == HIncrBy(h1, fieldSuccessCount, 1)
             h3 == HIncrBy(h2, fieldTotalLatencyMs, Milliseconds(result.Latency))
             h5 == HSet(h3, fieldAnonymityLevel, result.Anonymity)
         IN  HSet(h5, fieldConsecutiveFails, 0)
    ELSE LET h2 == HIncrBy(h1, fieldFailureCount, 1)
         IN  HIncrBy(h2, fieldConsecutiveFails, 1)

\* updateMetrics writing the latency of the result over the total
updateMetricsLatencyOverwritten(h, result, t) ==
    LET h1 == HSet(h, fieldLastSeenTime, t) IN
    IF result.IsAvailable
    THEN LET h2 == HIncrBy(h1, fieldSuccessCount, 1)
             h3 == HSet(h2, fieldTotalLatencyMs, Milliseconds(result.Latency))
             h4 == HSet(h3, fieldLastSuccessTime, t)
             h5 == HSet(h4, fieldAnonymityLevel, result.Anonymity)
         IN  HSet(h5, fieldConsecutiveFails, 0)
    ELSE LET h2 == HIncrBy(h1, fieldFailureCount, 1)
         IN  HIncrBy(h2, fieldConsecutiveFails, 1)

\* The commands updateMetrics queues in its MULTI/EXEC pipeline, applied to
\* the hash of the address in the order queued.
updateMetrics(h, result, t) ==
    LET h1 == HSet(h, fieldLastSeenTime, t) IN
    IF result.IsAvailable
    THEN LET h2 == HIncrBy(h1, fieldSuccessCount, 1)
             h3 == HIncrBy(h2, fieldTotalLatencyMs, Milliseconds(result.Latency))
             h4 == HSet(h3, fieldLastSuccessTime, t)
             h5 == HSet(h4, fieldAnonymityLevel, result.Anonymity)
         IN  HSet(h5, fieldConsecutiveFails, 0)
    ELSE LET h2 == HIncrBy(h1, fieldFailureCount, 1)
         IN  HIncrBy(h2, fieldConsecutiveFails, 1)

\* time.Time{} (the zero time), which parseTime yields for an absent field
ZeroTime == -1

\* getMetrics after a successful HGETALL of a non-empty hash: parseInt and
\* parseTime turn an absent field into 0 and into the zero time.
getMetrics(h) ==
    LET int(f) == IF f \in DOMAIN h THEN h[f] ELSE 0
        time(f) == IF f \in DOMAIN h THEN h[f] ELSE ZeroTime
    IN  [SuccessCount |-> int(fieldSuccessCount),
         FailureCount |-> int(fieldFailureCount),
         TotalLatencyMs |-> int(fieldTotalLatencyMs),
         AnonymityLevel |->
             IF fieldAnonymityLevel \in DOMAIN h THEN h[fieldAnonymityLevel] ELSE "",
         LastSeenTime |-> time(fieldLastSeenTime),
         LastSuccessTime |-> time(fieldLastSuccessTime),
         ConsecutiveFails |-> int(fieldConsecutiveFails)]

calculateSuccessRateScore(m) ==
    LET total == m.SuccessCount + m.FailureCount IN
    IF total = 0 THEN FZero ELSE Frac(m.SuccessCount, total)

\* calculateLatencyScore taking the total latency for the average
calculateLatencyScoreOfTotal(m) ==
    IF m.SuccessCount = 0
    THEN FZero
    ELSE FMax(FZero, Frac(maxLatencyMs - m.TotalLatencyMs, maxLatencyMs))

calculateLatencyScore(m) ==
    IF m.SuccessCount = 0
    THEN FZero
    ELSE FMax(FZero,
              Frac(maxLatencyMs * m.SuccessCount - m.TotalLatencyMs,
                   maxLatencyMs * m.SuccessCount))

calculateAnonymityScore(m) ==
    IF m.AnonymityLevel \in DOMAIN AnonymityScores
    THEN AnonymityScores[m.AnonymityLevel]
    ELSE AnonymityScores[Unknown]

\* calculateStabilityScore without the penalty for consecutive failures
calculateStabilityScoreNoPenalty(m, t) ==
    LET hoursSinceSuccess == t - m.LastSuccessTime
        recentSuccessBonus ==
            IF m.LastSuccessTime # ZeroTime /\ hoursSinceSuccess < recentHours
            THEN Frac(recentHours - hoursSinceSuccess, recentHours)
            ELSE FZero
    IN  FAdd(<<1, 2>>, FMul(<<1, 2>>, recentSuccessBonus))

calculateStabilityScore(m, t) ==
    LET failPenalty == FMin(FOne, Frac(m.ConsecutiveFails, maxConsecutiveFails))
        hoursSinceSuccess == t - m.LastSuccessTime
        recentSuccessBonus ==
            IF m.LastSuccessTime # ZeroTime /\ hoursSinceSuccess < recentHours
            THEN Frac(recentHours - hoursSinceSuccess, recentHours)
            ELSE FZero
        stabilityScore ==
            FMul(FAdd(FOne, <<0 - failPenalty[1], failPenalty[2]>>),
                 FAdd(<<1, 2>>, FMul(<<1, 2>>, recentSuccessBonus)))
    IN  FMax(FZero, stabilityScore)

\* finalScore with the weights of success rate and latency exchanged
finalScoreWeightsExchanged(m, t) ==
    FAdd(FAdd(FMul(calculateSuccessRateScore(m), weightLatency),
              FMul(calculateLatencyScore(m), weightSuccessRate)),
         FAdd(FMul(calculateAnonymityScore(m), weightAnonymity),
              FMul(calculateStabilityScore(m, t), weightStability)))

finalScore(m, t) ==
    FAdd(FAdd(FMul(calculateSuccessRateScore(m), weightSuccessRate),
              FMul(calculateLatencyScore(m), weightLatency)),
         FAdd(FMul(calculateAnonymityScore(m), weightAnonymity),
              FMul(calculateStabilityScore(m, t), weightStability)))

\* CalculateScore without the final clamp
CalculateScoreUnclamped(h, t, out) ==
    IF out = "err" THEN FZero
    ELSE IF ~HExists(h) THEN initialScore
    ELSE LET m == getMetrics(h) IN
         IF m.SuccessCount + m.FailureCount = 0 THEN initialScore
         ELSE finalScore(m, t)

\* CalculateScore returning the initial score when the HGETALL fails
CalculateScoreInitialOnError(h, t, out) ==
    IF out = "err" \/ ~HExists(h) THEN initialScore
    ELSE LET m == getMetrics(h) IN
         IF m.SuccessCount + m.FailureCount = 0 THEN initialScore
         ELSE FMax(FZero, FMin(FOne, finalScore(m, t)))

\* CalculateScore of an address whose hash is h, read at time t; out is the
\* outcome of the HGETALL.
CalculateScore(h, t, out) ==
    IF out = "err" THEN FZero
    ELSE IF ~HExists(h) THEN initialScore
    ELSE LET m == getMetrics(h) IN
         IF m.SuccessCount + m.FailureCount = 0 THEN initialScore
         ELSE FMax(FZero, FMin(FOne, finalScore(m, t)))

\* RemoveProxyMetrics deleting another key, so that the hash stays
RemoveProxyMetricsWrongKey(h, out) == h

\* RemoveProxyMetrics: DEL of the hash; an error is returned to the caller
RemoveProxyMetrics(h, out) == IF out = "ok" THEN NoHash ELSE h

(***************************************************************************)
(* LivePool members: "<address>:<port>"                                    *)
(***************************************************************************)
Colon == 58
Digit0 == 48
MaxUint16 == 65535

RECURSIVE FormatUint(_)
\* fmt's %d of an unsigned value
FormatUint(n) ==
    IF n < 10 THEN <<Digit0 + n>> ELSE FormatUint(n \div 10) \o <<Digit0 + (n % 10)>>

formatProxyIdentifier(ip, port) == ip \o <<Colon>> \o FormatUint(port)

\* strings.Index(s, ":"), the first occurrence, 1-based; 0 when there is none
FirstIndex(s, c) ==
    IF \E i \in 1..Len(s) : s[i] = c
    THEN CHOOSE i \in 1..Len(s) : s[i] = c /\ \A j \in 1..(i - 1) : s[j] # c
    ELSE 0

\* strings.LastIndex(s, ":"), 1-based; 0 when there is none
LastIndex(s, c) ==
    IF \E i \in 1..Len(s) : s[i] = c
    THEN CHOOSE i \in 1..Len(s) : s[i] = c /\ \A j \in (i + 1)..Len(s) : s[j] # c
    ELSE 0

IsDigit(c) == c >= Digit0 /\ c <= Digit0 + 9

RECURSIVE UintValue(_)
\* the value of a run of decimal digits, saturating above the 16-bit range
UintValue(s) ==
    IF Len(s) = 0 THEN 0
    ELSE LET hi == UintValue(SubSeq(s, 1, Len(s) - 1))
             v == hi * 10 + (s[Len(s)] - Digit0)
         IN  IF v > MaxUint16 THEN MaxUint16 + 1 ELSE v

\* strconv.ParseUint(s, 10, 16)
ParseUint(s) ==
    IF Len(s) = 0 \/ \E i \in 1..Len(s) : ~IsDigit(s[i])
    THEN [ok |-> FALSE, val |-> 0]
    ELSE IF UintValue(s) > MaxUint16
    THEN [ok |-> FALSE, val |-> MaxUint16]
    ELSE [ok |-> TRUE, val |-> UintValue(s)]

parseProxyIdentifier(identifier) ==
    LET lastColon == LastIndex(identifier, Colon) IN
    IF lastColon = 0
    THEN [ok |-> FALSE, ip |-> <<>>, port |-> 0]
    ELSE LET portVal == ParseUint(SubSeq(identifier, lastColon + 1, Len(identifier))) IN
         IF ~portVal.ok
         THEN [ok |-> FALSE, ip |-> <<>>, port |-> 0]
         ELSE [ok |-> TRUE, ip |-> SubSeq(identifier, 1, lastColon - 1),
               port |-> portVal.val]

(***************************************************************************)
(* The live-pool store: the sorted set proxies:available, a function from  *)
(* its members to their scores                                             *)
(***************************************************************************)
EmptyZSet == [m \in {} |-> FZero]

ZAdd(z, member, score, out) ==
    IF out = "ok"
    THEN [m \in DOMAIN z \cup {member} |-> IF m = member THEN score ELSE z[m]]
    ELSE z

ZRem(z, member, out) ==
    IF out = "ok" THEN [m \in DOMAIN z \ {member} |-> z[m]] ELSE z

\* byte-wise order of two member strings
BytesLess(a, b) ==
    \E i \in 1..(Len(b)) :
        /\ \A j \in 1..(i - 1) : j <= Len(a) /\ a[j] = b[j]
        /\ (i > Len(a) \/ a[i] < b[i])

\* the order of a sorted set: by score, members of equal score by bytes
ZBefore(z, a, b) ==
    FLess(z[a], z[b]) \/ (z[a] = z[b] /\ BytesLess(a, b))

\* ZRANGE key 0 0 in place of ZREVRANGE: the first member in the order
ZRange00(z) ==
    IF DOMAIN z = {} THEN <<>>
    ELSE <<CHOOSE m \in DOMAIN z : \A n \in DOMAIN z \ {m} : ZBefore(z, m, n)>>

\* ZREVRANGE key 0 0: the last member in the order of the set, if any
ZRevRange00(z) ==
    IF DOMAIN z = {} THEN <<>>
    ELSE <<CHOOSE m \in DOMAIN z : \A n \in DOMAIN z \ {m} : ZBefore(z, n, m)>>

(***************************************************************************)
(* State                                                                   *)
(*   metrics  the counter store: address -> hash                           *)
(*   zset     the live-pool store                                          *)
(*   now      the wall clock, in hours                                     *)
(*   last     the call that returned last: its name, arguments, the        *)
(*            outcomes of its store calls and what it returned             *)
(*   calls    the number of calls made so far                              *)
(*   procs    the goroutines that call the scorer and the scheduler        *)
(*            concurrently: for each its call, its position in it and its  *)
(*            local values                                                 *)
(***************************************************************************)
Nil == <<>>

\* the nil error
NilError == "nil"

\* a *providers.ProxyIP that is returned: no element for nil, else the value
NilProxy == <<>>

\* redis.Nil, which SelectBestProxy returns for an empty set
RedisNil == "redis: nil"

Returned(op, arg, outs, ret) ==
    [op |-> op, arg |-> arg, outs |-> outs, ret |-> ret]

\* goroutines calling concurrently
NumProcs == 3

Procs == 1..NumProcs

\* a goroutine that has not made its call
Idle == [pc |-> "idle"]

Init ==
    /\ metrics = [a \in Addresses |-> NoHash]
    /\ zset = EmptyZSet
    /\ now = 0
    /\ last = Returned("init", Nil, Nil, Nil)
    /\ calls = 0
    /\ procs = [p \in Procs |-> Idle]

\* UpdateMetricsWithCurrentTime whose transaction is never executed
UpdateMetricsNotExecuted(h, result, t, out) == h

\* UpdateMetricsWithCurrentTime applying the first queued command alone when
\* the reply of EXEC is lost
UpdateMetricsFirstCommandOnLostReply(h, result, t, out) ==
    IF out = "ok" THEN updateMetrics(h, result, t)
    ELSE IF out = "lost" THEN HSet(h, fieldLastSeenTime, t)
    ELSE h

\* UpdateMetricsWithCurrentTime: the transaction of updateMetrics at
\* time.Now(); an error of EXEC is logged and not returned. EXEC returns an
\* error when the transaction did not reach the server ("err"), and also
\* when the server executed it and the reply did not come back before the
\* connection broke or the context was cancelled ("lost").
UpdateMetricsWithCurrentTime(h, result, t, out) ==
    IF out \in {"ok", "lost"} THEN updateMetrics(h, result, t) ELSE h

\* The validator pipeline records a probe result for an address.
UpdateOnResult(a, result, out) ==
    /\ metrics' = [metrics EXCEPT ![a] = UpdateMetricsWithCurrentTime(@, result, now, out)]
    /\ last' = Returned("UpdateOnResult", [Address |-> a, Result |-> result], <<out>>, Nil)
    /\ UNCHANGED <<zset, now>>

\* A caller reads the score of an address.
Score(a, out) ==
    /\ last' = Returned("Score", a, <<out>>, CalculateScore(metrics[a], now, out))
    /\ UNCHANGED <<metrics, zset, now>>

\* A caller removes the metrics of an address.
RemoveMetrics(a, out) ==
    /\ metrics' = [metrics EXCEPT ![a] = RemoveProxyMetrics(@, out)]
    /\ last' = Returned("RemoveMetrics", a, <<out>>, IF out = "ok" THEN NilError ELSE "error")
    /\ UNCHANGED <<zset, now>>

\* the ValidationResult built without copying Success (IsAvailable stays false)
LiftUsageNoSuccess(usage) ==
    [IsAvailable |-> FALSE, Latency |-> usage.Latency, Anonymity |-> Unknown]

\* ValidationResult that UpdateProxyUsage builds from a UsageResult
LiftUsage(usage) ==
    [IsAvailable |-> usage.Success, Latency |-> usage.Latency, Anonymity |-> Unknown]

\* SelectBestProxy returning (nil, nil) for an empty set
SelectBestProxyNoSentinel(req, out) ==
    /\ LET result == ZRevRange00(zset) IN
       last' = Returned("SelectBestProxy", req, <<out>>,
           IF out = "err" THEN [proxy |-> NilProxy, err |-> "failed to get best proxy from redis"]
           ELSE IF Len(result) = 0 THEN [proxy |-> NilProxy, err |-> NilError]
           ELSE LET id == parseProxyIdentifier(result[1]) IN
                IF ~id.ok THEN [proxy |-> NilProxy, err |-> "invalid identifier"]
                ELSE [proxy |-> <<[Address |-> id.ip, Port |-> id.port]>>, err |-> NilError])
    /\ UNCHANGED <<metrics, zset, now>>

SelectBestProxy(req, out) ==
    /\ LET result == ZRevRange00(zset) IN
       last' = Returned("SelectBestProxy", req, <<out>>,
           IF out = "err" THEN [proxy |-> NilProxy, err |-> "failed to get best proxy from redis"]
           ELSE IF Len(result) = 0 THEN [proxy |-> NilProxy, err |-> RedisNil]
           ELSE LET id == parseProxyIdentifier(result[1]) IN
                IF ~id.ok THEN [proxy |-> NilProxy, err |-> "invalid identifier"]
                ELSE [proxy |-> <<[Address |-> id.ip, Port |-> id.port]>>, err |-> NilError])
    /\ UNCHANGED <<metrics, zset, now>>

\* UpdateProxyUsage reading the score before it records the usage
UpdateProxyUsageScoreFirst(usage, out1, out2, out3) ==
    LET a == usage.Proxy.Address
        newScore == CalculateScore(metrics[a], now, out2)
        updated == UpdateMetricsWithCurrentTime(metrics[a], LiftUsage(usage), now, out1)
        proxyIdentifier == formatProxyIdentifier(a, usage.Proxy.Port)
    IN  /\ metrics' = [metrics EXCEPT ![a] = updated]
        /\ zset' = ZAdd(zset, proxyIdentifier, newScore, out3)
        /\ last' = Returned("UpdateProxyUsage", usage, <<out1, out2, out3>>, Nil)
        /\ UNCHANGED now

UpdateProxyUsage(usage, out1, out2, out3) ==
    LET a == usage.Proxy.Address
        updated == UpdateMetricsWithCurrentTime(metrics[a], LiftUsage(usage), now, out1)
        newScore == CalculateScore(updated, now, out2)
        proxyIdentifier == formatProxyIdentifier(a, usage.Proxy.Port)
    IN  /\ metrics' = [metrics EXCEPT ![a] = updated]
        /\ zset' = ZAdd(zset, proxyIdentifier, newScore, out3)
        /\ last' = Returned("UpdateProxyUsage", usage, <<out1, out2, out3>>, Nil)
        /\ UNCHANGED now

\* AddProxyToPool adding every proxy with the initial score
AddProxyToPoolInitial(proxy, out1, out2) ==
    LET proxyIdentifier == formatProxyIdentifier(proxy.Address, proxy.Port)
    IN  /\ zset' = ZAdd(zset, proxyIdentifier, initialScore, out2)
        /\ last' = Returned("AddProxyToPool", proxy, <<out1, out2>>, Nil)
        /\ UNCHANGED <<metrics, now>>

AddProxyToPool(proxy, out1, out2) ==
    LET initial == CalculateScore(metrics[proxy.Address], now, out1)
        proxyIdentifier == formatProxyIdentifier(proxy.Address, proxy.Port)
    IN  /\ zset' = ZAdd(zset, proxyIdentifier, initial, out2)
        /\ last' = Returned("AddProxyToPool", proxy, <<out1, out2>>, Nil)
        /\ UNCHANGED <<metrics, now>>

\* RemoveProxyFromPool returning as soon as ZREM fails
RemoveProxyFromPoolEarlyReturn(proxy, out1, out2) ==
    LET proxyIdentifier == formatProxyIdentifier(proxy.Address, proxy.Port)
    IN  /\ zset' = ZRem(zset, proxyIdentifier, out1)
        /\ metrics' = [metrics EXCEPT ![proxy.Address] =
                          IF out1 = "ok" THEN RemoveProxyMetrics(@, out2) ELSE @]
        /\ last' = Returned("RemoveProxyFromPool", proxy, <<out1, out2>>, Nil)
        /\ UNCHANGED now

\* RemoveProxyFromPool removing every member of the address of the proxy
RemoveProxyFromPoolEveryPort(proxy, out1, out2) ==
    /\ zset' = IF out1 = "ok"
               THEN [m \in {x \in DOMAIN zset : parseProxyIdentifier(x).ip # proxy.Address}
                       |-> zset[m]]
               ELSE zset
    /\ metrics' = [metrics EXCEPT ![proxy.Address] = RemoveProxyMetrics(@, out2)]
    /\ last' = Returned("RemoveProxyFromPool", proxy, <<out1, out2>>, Nil)
    /\ UNCHANGED now

RemoveProxyFromPool(proxy, out1, out2) ==
    LET proxyIdentifier == formatProxyIdentifier(proxy.Address, proxy.Port)
    IN  /\ zset' = ZRem(zset, proxyIdentifier, out1)
        /\ metrics' = [metrics EXCEPT ![proxy.Address] = RemoveProxyMetrics(@, out2)]
        /\ last' = Returned("RemoveProxyFromPool", proxy, <<out1, out2>>, Nil)
        /\ UNCHANGED now

\* The wall clock advances.
Tick ==
    /\ now < MaxTicks * TickHours
    /\ now' = now + TickHours
    /\ UNCHANGED <<metrics, zset, last, calls, procs>>

(***************************************************************************)
(* Spec: the scheduler and the scorer called one call at a time, every     *)
(* store call succeeding                                                   *)
(***************************************************************************)
\* a call made by the one sequential caller, counted
Counted(max) == calls < max /\ calls' = calls + 1 /\ UNCHANGED procs

Next ==
    \/ \E a \in Addresses, r \in ProbeResults :
          Counted(MaxCalls) /\ UpdateOnResult(a, r, "ok")
    \/ \E a \in Addresses : Counted(MaxCalls) /\ Score(a, "ok")
    \/ \E a \in Addresses : Counted(MaxCalls) /\ RemoveMetrics(a, "ok")
    \/ \E req \in ScheduleRequests : Counted(MaxCalls) /\ SelectBestProxy(req, "ok")
    \/ \E u \in UsageResults : Counted(MaxCalls) /\ UpdateProxyUsage(u, "ok", "ok", "ok")
    \/ \E p \in Proxies : Counted(MaxCalls) /\ AddProxyToPool(p, "ok", "ok")
    \/ \E p \in Proxies : Counted(MaxCalls) /\ RemoveProxyFromPool(p, "ok", "ok")
    \/ Tick

Spec == Init /\ [][Next]_vars

(***************************************************************************)
(* SpecFaults: the same calls, each store call succeeding or failing       *)
(***************************************************************************)
NextFaults ==
    \/ \E a \in Addresses, r \in ProbeResults, o \in Outcomes :
          Counted(MaxFaultCalls) /\ UpdateOnResult(a, r, o)
    \/ \E a \in Addresses, o \in Outcomes : Counted(MaxFaultCalls) /\ Score(a, o)
    \/ \E a \in Addresses, o \in Outcomes : Counted(MaxFaultCalls) /\ RemoveMetrics(a, o)
    \/ \E req \in ScheduleRequests, o \in Outcomes :
          Counted(MaxFaultCalls) /\ SelectBestProxy(req, o)
    \/ \E u \in UsageResults, o1, o2, o3 \in Outcomes :
          Counted(MaxFaultCalls) /\ UpdateProxyUsage(u, o1, o2, o3)
    \/ \E p \in Proxies, o1, o2 \in Outcomes :
          Counted(MaxFaultCalls) /\ AddProxyToPool(p, o1, o2)
    \/ \E p \in Proxies, o1, o2 \in Outcomes :
          Counted(MaxFaultCalls) /\ RemoveProxyFromPool(p, o1, o2)
    \/ Tick

SpecFaults == Init /\ [][NextFaults]_vars

(***************************************************************************)
(* SpecScorer: the scorer alone on one address, with every probe result    *)
(***************************************************************************)
ResultsRecorded(h) ==
    getMetrics(h).SuccessCount + getMetrics(h).FailureCount

NextScorer ==
    \/ \E r \in ValidationResults :
          /\ ResultsRecorded(metrics[Addr1]) < MaxResults
          /\ UpdateOnResult(Addr1, r, "ok")
          /\ UNCHANGED <<calls, procs>>
    \/ Score(Addr1, "ok") /\ UNCHANGED <<calls, procs>>
    \/ RemoveMetrics(Addr1, "ok") /\ UNCHANGED <<calls, procs>>
    \/ Tick

SpecScorer == Init /\ [][NextScorer]_vars

(***************************************************************************)
(* SpecStreak: runs of results recorded for one address from a cold start  *)
(***************************************************************************)
StreakResults ==
    { [IsAvailable |-> TRUE, Latency |-> 100500, Anonymity |-> Elite],
      [IsAvailable |-> TRUE, Latency |-> 4000000, Anonymity |-> Elite],
      [IsAvailable |-> FALSE, Latency |-> 0, Anonymity |-> Unknown] }

NextStreak ==
    \/ \E r \in StreakResults :
          /\ ResultsRecorded(metrics[Addr1]) < MaxStreak
          /\ UpdateOnResult(Addr1, r, "ok")
          /\ UNCHANGED <<calls, procs>>
    \/ Score(Addr1, "ok") /\ UNCHANGED <<calls, procs>>
    \/ Tick

SpecStreak == Init /\ [][NextStreak]_vars

(***************************************************************************)
(* SpecFormula: the score of records that longer histories leave behind    *)
(***************************************************************************)
\* the hash of an address after sc successes of avgMs each and fc failures,
\* cf of them since the last success, which was hoursAgo hours ago
RecordOf(sc, fc, avgMs, anonymity, hoursAgo, cf) ==
    LET seen == [f \in {fieldLastSeenTime} |->
                    IF cf = 0 THEN ReadHour - hoursAgo ELSE ReadHour]
        failed == IF fc = 0 THEN seen
                  ELSE HSet(HSet(seen, fieldFailureCount, fc), fieldConsecutiveFails, cf)
    IN  IF sc = 0 THEN failed
        ELSE HSet(HSet(HSet(HSet(HSet(failed,
                 fieldSuccessCount, sc),
                 fieldTotalLatencyMs, sc * avgMs),
                 fieldLastSuccessTime, ReadHour - hoursAgo),
                 fieldAnonymityLevel, anonymity),
                 fieldConsecutiveFails, cf)

\* records the program can hold: at least one result, no more consecutive
\* failures than failures, all failures consecutive when nothing succeeded
RecordSamples ==
    { RecordOf(x[1], x[2], x[3], x[4], x[5], x[6]) :
        x \in { y \in {0, 10, 100} \X {0, 5, 90} \X {200, 4000, 6000}
                       \X AnonymityLevels \X {1, 30, 48} \X {0, 3, 5, 8} :
                  /\ y[1] + y[2] > 0
                  /\ y[6] <= y[2]
                  /\ y[1] = 0 => y[6] = y[2] } }

InitFormula ==
    /\ metrics \in {[a \in Addresses |-> IF a = Addr1 THEN h ELSE NoHash] :
                        h \in RecordSamples}
    /\ zset = EmptyZSet
    /\ now = ReadHour
    /\ last = Returned("init", Nil, Nil, Nil)
    /\ calls = 0
    /\ procs = [p \in Procs |-> Idle]

NextFormula == Score(Addr1, "ok") /\ UNCHANGED <<calls, procs>>

SpecFormula == InitFormula /\ [][NextFormula]_vars

(***************************************************************************)
(* SpecIdentifier: formatProxyIdentifier and parseProxyIdentifier applied  *)
(* to addresses, ports and member texts                                    *)
(***************************************************************************)
\* bytes of addresses: "1", ":", "." and "["
AddrBytes == {49, 58, 46, 91}

RECURSIVE Texts(_, _)
\* the texts of at most n bytes over an alphabet
Texts(bytes, n) ==
    IF n = 0 THEN {<<>>}
    ELSE LET shorter == Texts(bytes, n - 1) IN
         shorter \cup {t \o <<b>> : t \in shorter, b \in bytes}

IdentAddresses == Texts(AddrBytes, MaxAddrLen)

\* uint16 ports
IdentPorts == {0, 1, 9, 10, 80, 8080, 65535}

\* what may follow the last ":" of a member: "", "0", "00", "1", "080",
\* "65535", "65536", "99999", "a", "1a", "-1", "+1", " 1"
PortTexts ==
    { <<>>, <<48>>, <<48, 48>>, <<49>>, <<48, 56, 48>>,
      <<54, 53, 53, 51, 53>>, <<54, 53, 53, 51, 54>>, <<57, 57, 57, 57, 57>>,
      <<97>>, <<49, 97>>, <<45, 49>>, <<43, 49>>, <<32, 49>> }

\* member texts given to parseProxyIdentifier
MemberTexts ==
    {a \o <<Colon>> \o t : a \in Texts(AddrBytes, 2), t \in PortTexts}
        \cup Texts({49, 46}, MaxAddrLen)

FormatIdentifier(ip, port) ==
    /\ last' = Returned("formatProxyIdentifier", [ip |-> ip, port |-> port], Nil,
                        formatProxyIdentifier(ip, port))
    /\ UNCHANGED <<metrics, zset, now, calls, procs>>

ParseIdentifier(identifier) ==
    /\ last' = Returned("parseProxyIdentifier", identifier, Nil,
                        parseProxyIdentifier(identifier))
    /\ UNCHANGED <<metrics, zset, now, calls, procs>>

NextIdentifier ==
    \/ \E ip \in IdentAddresses, port \in IdentPorts : FormatIdentifier(ip, port)
    \/ \E identifier \in MemberTexts : ParseIdentifier(identifier)
    \/ last.op = "formatProxyIdentifier" /\ ParseIdentifier(last.ret)

SpecIdentifier == Init /\ [][NextIdentifier]_vars

(***************************************************************************)
(* SpecForeign: the scheduler over a sorted set that another client of the *)
(* Redis server writes to as well                                          *)
(***************************************************************************)
\* members that parseProxyIdentifier rejects: "1", "1:a", "1:65536"
MalformedMembers ==
    { <<49>>, <<49, 58, 97>>, <<49, 58, 54, 53, 53, 51, 54>> }

ForeignScores == {<<1, 4>>, <<1, 1>>}

\* ZADD proxies:available by a client other than the scheduler
ForeignZAdd(member, score) ==
    /\ zset' = ZAdd(zset, member, score, "ok")
    /\ last' = Returned("ForeignZAdd", member, <<"ok">>, Nil)
    /\ UNCHANGED <<metrics, now>>

NextForeign ==
    \/ \E m \in MalformedMembers, x \in ForeignScores :
          Counted(MaxCalls) /\ ForeignZAdd(m, x)
    \/ \E p \in Proxies : Counted(MaxCalls) /\ AddProxyToPool(p, "ok", "ok")
    \/ \E u \in UsageResults : Counted(MaxCalls) /\ UpdateProxyUsage(u, "ok", "ok", "ok")
    \/ \E req \in ScheduleRequests : Counted(MaxCalls) /\ SelectBestProxy(req, "ok")

SpecForeign == Init /\ [][NextForeign]_vars

(***************************************************************************)
(* SpecConcurrent: goroutines calling the scorer and the scheduler at the  *)
(* same time for one proxy. Each store command, and each MULTI/EXEC        *)
(* transaction, is one step at the Redis server; what a goroutine does     *)
(* between two of them is local to it.                                     *)
(***************************************************************************)
\* the commands updateMetrics queues in its pipeline, in the order queued
queuedCommands(result, t) ==
    <<[cmd |-> "HSET", field |-> fieldLastSeenTime, val |-> t]>> \o
    (IF result.IsAvailable
     THEN <<[cmd |-> "HINCRBY", field |-> fieldSuccessCount, val |-> 1],
            [cmd |-> "HINCRBY", field |-> fieldTotalLatencyMs,
             val |-> Milliseconds(result.Latency)],
            [cmd |-> "HSET", field |-> fieldLastSuccessTime, val |-> t],
            [cmd |-> "HSET", field |-> fieldAnonymityLevel, val |-> result.Anonymity],
            [cmd |-> "HSET", field |-> fieldConsecutiveFails, val |-> 0]>>
     ELSE <<[cmd |-> "HINCRBY", field |-> fieldFailureCount, val |-> 1],
            [cmd |-> "HINCRBY", field |-> fieldConsecutiveFails, val |-> 1]>>)

applyCommand(h, c) ==
    IF c.cmd = "HSET" THEN HSet(h, c.field, c.val) ELSE HIncrBy(h, c.field, c.val)

RECURSIVE applyCommands(_, _)
applyCommands(h, queue) ==
    IF queue = <<>> THEN h ELSE applyCommands(applyCommand(h, Head(queue)), Tail(queue))

\* a pipeline without MULTI/EXEC: the server takes one queued command at a
\* time, commands of other clients in between
ExecOneByOne(h, queue) ==
    [hash |-> applyCommand(h, Head(queue)), rest |-> Tail(queue)]

\* EXEC of the TxPipeline: the server applies the queued commands as one
\* step; none is left
TxExec(h, queue) ==
    [hash |-> applyCommands(h, queue), rest |-> <<>>]

\* the proxy the goroutines report on, and its usages
SharedProxy == [Address |-> Addr1, Port |-> 80, Country |-> "US"]

SharedUsages ==
    { [Proxy |-> SharedProxy, Success |-> TRUE, Latency |-> 100500],
      [Proxy |-> SharedProxy, Success |-> FALSE, Latency |-> 0] }

\* go scorer.UpdateMetricsWithCurrentTime(ctx, a, result): time.Now() is
\* read and the pipeline is filled
GoUpdateOnResult(p, a, result) ==
    /\ procs[p].pc = "idle"
    /\ procs' = [procs EXCEPT ![p] =
           [pc |-> "exec", op |-> "UpdateOnResult", addr |-> a, result |-> result,
            t |-> now, queue |-> queuedCommands(result, now)]]
    /\ UNCHANGED <<metrics, zset, now, last, calls>>

\* go scorer.CalculateScore(ctx, a)
GoScore(p, a) ==
    /\ procs[p].pc = "idle"
    /\ procs' = [procs EXCEPT ![p] = [pc |-> "hgetall", op |-> "Score", addr |-> a]]
    /\ UNCHANGED <<metrics, zset, now, last, calls>>

\* go scheduler.UpdateProxyUsage(ctx, usage)
GoUpdateProxyUsage(p, usage) ==
    /\ procs[p].pc = "idle"
    /\ procs' = [procs EXCEPT ![p] =
           [pc |-> "exec", op |-> "UpdateProxyUsage", addr |-> usage.Proxy.Address,
            proxy |-> usage.Proxy, result |-> LiftUsage(usage),
            t |-> now, queue |-> queuedCommands(LiftUsage(usage), now)]]
    /\ UNCHANGED <<metrics, zset, now, last, calls>>

\* pipe.Exec of updateMetrics
PipeExec(p) ==
    /\ procs[p].pc = "exec"
    /\ LET r == TxExec(metrics[procs[p].addr], procs[p].queue) IN
       /\ metrics' = [metrics EXCEPT ![procs[p].addr] = r.hash]
       /\ procs' = [procs EXCEPT ![p].queue = r.rest,
                                 ![p].pc = IF r.rest # <<>> THEN "exec"
                                           ELSE IF procs[p].op = "UpdateOnResult"
                                           THEN "done" ELSE "hgetall"]
    /\ UNCHANGED <<zset, now, last, calls>>

\* HGETALL of getMetrics, and the score CalculateScore computes from it
HGetAll(p) ==
    /\ procs[p].pc = "hgetall"
    /\ LET data == metrics[procs[p].addr] IN
       procs' = [procs EXCEPT ![p] =
           [f \in DOMAIN procs[p] \cup {"data", "score"} |->
               CASE f = "data" -> data
                 [] f = "score" -> CalculateScore(data, now, "ok")
                 [] f = "pc" -> IF procs[p].op = "Score" THEN "done" ELSE "zadd"
                 [] OTHER -> procs[p][f]]]
    /\ UNCHANGED <<metrics, zset, now, last, calls>>

\* ZADD of UpdateProxyUsage, with the score read before
ZAddNewScore(p) ==
    /\ procs[p].pc = "zadd"
    /\ zset' = ZAdd(zset, formatProxyIdentifier(procs[p].proxy.Address, procs[p].proxy.Port),
                    procs[p].score, "ok")
    /\ procs' = [procs EXCEPT ![p].pc = "done"]
    /\ UNCHANGED <<metrics, now, last, calls>>

NextConcurrent ==
    \/ \E p \in Procs, r \in ProbeResults : GoUpdateOnResult(p, Addr1, r)
    \/ \E p \in Procs : GoScore(p, Addr1)
    \/ \E p \in Procs, u \in SharedUsages : GoUpdateProxyUsage(p, u)
    \/ \E p \in Procs : PipeExec(p)
    \/ \E p \in Procs : HGetAll(p)
    \/ \E p \in Procs : ZAddNewScore(p)

SpecConcurrent == Init /\ [][NextConcurrent]_vars

(***************************************************************************)
(* The validator (services/proxy-pool/validator): one probe of a proxy     *)
(* against a check target. What the network does with the request is the   *)
(* record net: the error of client.Do, and the status, the read error and  *)
(* the body of the response. A body is a record: whether it holds the      *)
(* must_contain text of the target, whether it decodes as httpbinResponse, *)
(* and the headers map it decodes to (header keys and values are texts).   *)
(***************************************************************************)
\* strings.Contains
Contains(s, sub) ==
    \E i \in 0..(Len(s) - Len(sub)) : SubSeq(s, i + 1, i + Len(sub)) = sub

\* url.Parse of the URLs built here fails on a control byte anywhere and on
\* a space in the authority
urlParseFails(s) ==
    \E i \in 1..Len(s) : s[i] < 32 \/ s[i] = 127 \/ s[i] = 32

\* "http://%s:%d", with "%s:%s@" before the address when a user name is set
proxyURLStr(proxy) ==
    <<104, 116, 116, 112, 58, 47, 47>> \o
    (IF proxy.Username # <<>>
     THEN proxy.Username \o <<Colon>> \o proxy.Password \o <<64>> ELSE <<>>) \o
    proxy.Address \o <<Colon>> \o FormatUint(proxy.Port)

\* the keys detectAnonymity looks up: "Via", "via", "X-Forwarded-For",
\* "x-forwarded-for", "Forwarded", "forwarded", "X-Proxy-Id",
\* "Proxy-Connection"
proxyHeaderKeys ==
    { <<86, 105, 97>>,
      <<118, 105, 97>>,
      <<88, 45, 70, 111, 114, 119, 97, 114, 100, 101, 100, 45, 70, 111, 114>>,
      <<120, 45, 102, 111, 114, 119, 97, 114, 100, 101, 100, 45, 102, 111, 114>>,
      <<70, 111, 114, 119, 97, 114, 100, 101, 100>>,
      <<102, 111, 114, 119, 97, 114, 100, 101, 100>>,
      <<88, 45, 80, 114, 111, 120, 121, 45, 73, 100>>,
      <<80, 114, 111, 120, 121, 45, 67, 111, 110, 110, 101, 99, 116, 105, 111, 110>> }

\* detectAnonymity looking for the public IP in the origin alone
detectAnonymityNoLeakTest(v, body) ==
    IF ~body.decodes THEN Unknown
    ELSE IF \E key \in proxyHeaderKeys : key \in DOMAIN body.headers THEN Anonymous
    ELSE Elite

detectAnonymity(v, body) ==
    IF ~body.decodes THEN Unknown
    ELSE LET isTransparent ==
                 /\ v.publicIP # <<>>
                 /\ \E key \in DOMAIN body.headers :
                       Contains(body.headers[key], v.publicIP)
             hasProxyHeaders ==
                 \E key \in proxyHeaderKeys : key \in DOMAIN body.headers
         IN  IF isTransparent THEN Transparent
             ELSE IF hasProxyHeaders THEN Anonymous
             ELSE Elite

\* the zero ValidationResult with IsAvailable false and an error message
Unavailable(message, latency) ==
    [IsAvailable |-> FALSE, Latency |-> latency, Anonymity |-> "",
     ErrorMessage |-> message]

\* Validate checking the content of the body before the status code
ValidateContentFirst(v, proxy, target, net) ==
    IF urlParseFails(proxyURLStr(proxy))
    THEN Unavailable(<<"invalid proxy format">>, 0)
    ELSE IF urlParseFails(target.URL)
    THEN Unavailable(<<"failed to create request">>, 0)
    ELSE IF net.err # NilError
    THEN Unavailable(<<net.err>>, net.latency)
    ELSE IF target.MustContain # <<>> /\ ~net.body.marker
    THEN Unavailable(<<"response content mismatch">>, net.latency)
    ELSE IF net.status # 200
    THEN Unavailable(<<"bad status code: ", net.status>>, net.latency)
    ELSE IF net.readErr
    THEN Unavailable(<<"failed to read response body">>, net.latency)
    ELSE [IsAvailable |-> TRUE, Latency |-> net.latency,
          Anonymity |-> detectAnonymity(v, net.body), ErrorMessage |-> <<>>]

\* Validate: an error message is <<>> for "", else the text, followed by
\* the status code for "bad status code: %d"
Validate(v, proxy, target, net) ==
    IF urlParseFails(proxyURLStr(proxy))
    THEN Unavailable(<<"invalid proxy format">>, 0)
    ELSE IF urlParseFails(target.URL)
    THEN Unavailable(<<"failed to create request">>, 0)
    ELSE IF net.err # NilError
    THEN Unavailable(<<net.err>>, net.latency)
    ELSE IF net.status # 200
    THEN Unavailable(<<"bad status code: ", net.status>>, net.latency)
    ELSE IF net.readErr
    THEN Unavailable(<<"failed to read response body">>, net.latency)
    ELSE IF target.MustContain # <<>> /\ ~net.body.marker
    THEN Unavailable(<<"response content mismatch">>, net.latency)
    ELSE [IsAvailable |-> TRUE, Latency |-> net.latency,
          Anonymity |-> detectAnonymity(v, net.body), ErrorMessage |-> <<>>]

\* validators: the public IP found at construction, "" or "9.9"
Validators == [publicIP : {<<>>, <<57, 46, 57>>}]

\* the proxies probed: "1":80 with and without credentials, and "1 ":80
ProbedProxies ==
    { [Address |-> Addr1, Port |-> 80, Username |-> <<>>, Password |-> <<>>],
      [Address |-> Addr1, Port |-> 80, Username |-> <<117>>, Password |-> <<112>>],
      [Address |-> <<49, 32>>, Port |-> 80, Username |-> <<>>, Password |-> <<>>] }

\* check targets: URL "h" or a DEL byte, MustContain "" or "o"
CheckTargets == [URL : {<<104>>, <<127>>}, MustContain : {<<>>, <<111>>}]

\* header values: one of a proxy, and one that holds the public IP "9.9"
HeaderValues == {<<49, 46, 49, 32, 112>>, <<102, 111, 114, 61, 57, 46, 57>>}

\* header keys a reflection may hold: the five proxy headers in their
\* canonical, lower and upper case, and "Accept"
ReflectedKeys ==
    { <<86, 105, 97>>,
      <<118, 105, 97>>,
      <<86, 73, 65>>,
      <<88, 45, 70, 111, 114, 119, 97, 114, 100, 101, 100, 45, 70, 111, 114>>,
      <<120, 45, 102, 111, 114, 119, 97, 114, 100, 101, 100, 45, 102, 111, 114>>,
      <<88, 45, 70, 79, 82, 87, 65, 82, 68, 69, 68, 45, 70, 79, 82>>,
      <<70, 111, 114, 119, 97, 114, 100, 101, 100>>,
      <<102, 111, 114, 119, 97, 114, 100, 101, 100>>,
      <<70, 79, 82, 87, 65, 82, 68, 69, 68>>,
      <<88, 45, 80, 114, 111, 120, 121, 45, 73, 100>>,
      <<120, 45, 112, 114, 111, 120, 121, 45, 105, 100>>,
      <<88, 45, 80, 82, 79, 88, 89, 45, 73, 68>>,
      <<80, 114, 111, 120, 121, 45, 67, 111, 110, 110, 101, 99, 116, 105, 111, 110>>,
      <<112, 114, 111, 120, 121, 45, 99, 111, 110, 110, 101, 99, 116, 105, 111, 110>>,
      <<80, 82, 79, 88, 89, 45, 67, 79, 78, 78, 69, 67, 84, 73, 79, 78>>,
      <<65, 99, 99, 101, 112, 116>> }

NoHeaders == [key \in {} |-> <<>>]

\* the headers maps of a reflection: none, one header, or "Accept" and
\* another header
HeaderMaps ==
    {NoHeaders}
        \cup {[key \in {k} |-> x] : k \in ReflectedKeys, x \in HeaderValues}
        \cup {[key \in {k, <<65, 99, 99, 101, 112, 116>>} |-> IF key = k THEN x ELSE y] :
                 k \in ReflectedKeys, x \in HeaderValues, y \in HeaderValues}

\* response bodies: one that does not decode, and the reflections
Bodies ==
    [marker : BOOLEAN, decodes : {FALSE}, headers : {NoHeaders}]
        \cup [marker : BOOLEAN, decodes : {TRUE}, headers : HeaderMaps]

\* the bodies of the responses of SpecValidator's probes
ProbeBodies ==
    {b \in Bodies : \A key \in DOMAIN b.headers : key = <<86, 105, 97>>}

\* what the network does with a probe
Exchanges ==
    [err : {NilError, "context deadline exceeded", "connection refused"},
     status : {200, 404}, readErr : BOOLEAN, body : ProbeBodies, latency : {100500}]

\* The validator pipeline probes a proxy.
ValidateProxy(v, proxy, target, net) ==
    /\ last' = Returned("Validate", [v |-> v, proxy |-> proxy, target |-> target, net |-> net],
                        Nil, Validate(v, proxy, target, net))
    /\ UNCHANGED <<metrics, zset, now, calls, procs>>

\* The validator classifies the body of a response.
DetectAnonymity(v, body) ==
    /\ last' = Returned("detectAnonymity", [v |-> v, body |-> body], Nil,
                        detectAnonymity(v, body))
    /\ UNCHANGED <<metrics, zset, now, calls, procs>>

NextValidator ==
    \/ \E v \in Validators, proxy \in ProbedProxies, target \in CheckTargets,
          net \in Exchanges : ValidateProxy(v, proxy, target, net)
    \/ \E v \in Validators, body \in Bodies : DetectAnonymity(v, body)

SpecValidator == Init /\ [][NextValidator]_vars

(***************************************************************************)
(* The provider adapter (services/proxy-pool/providers/webshare): one fetch *)
(* of the proxy list. What the upstream does with the request is the       *)
(* record resp: the error of client.Do, the status of the response, and    *)
(* its body, which decodes as a webshare.Response with the given results   *)
(* or does not decode.                                                     *)
(***************************************************************************)
\* the longest results list of a payload
MaxEntries == 3

\* webshare.Proxy entries: two valid ones and an invalid one
UpstreamEntries ==
    { [ID |-> <<97>>, Username |-> <<117>>, Password |-> <<112>>, ProxyAddress |-> <<49>>,
       Port |-> 80, Valid |-> TRUE, LastVerification |-> <<118>>, CountryCode |-> <<85, 83>>,
       CityName |-> <<99>>, CreatedAt |-> <<100>>],
      [ID |-> <<98>>, Username |-> <<119>>, Password |-> <<113>>, ProxyAddress |-> <<50>>,
       Port |-> 81, Valid |-> TRUE, LastVerification |-> <<120>>, CountryCode |-> <<68, 69>>,
       CityName |-> <<101>>, CreatedAt |-> <<102>>],
      [ID |-> <<103>>, Username |-> <<121>>, Password |-> <<114>>, ProxyAddress |-> <<51>>,
       Port |-> 82, Valid |-> FALSE, LastVerification |-> <<122>>, CountryCode |-> <<70, 82>>,
       CityName |-> <<104>>, CreatedAt |-> <<105>>] }

RECURSIVE SeqsUpTo(_, _)
\* the sequences over S of length at most n
SeqsUpTo(S, n) ==
    IF n = 0 THEN {<<>>}
    ELSE LET shorter == SeqsUpTo(S, n - 1)
         IN  shorter \cup {Append(s, x) : s \in {t \in shorter : Len(t) = n - 1}, x \in S}

\* response bodies: one that does not decode, and the decodable payloads
Payloads ==
    {[decodes |-> FALSE, results |-> <<>>]}
        \cup [decodes : {TRUE}, results : SeqsUpTo(UpstreamEntries, MaxEntries)]

\* what the upstream does with a fetch
UpstreamResponses ==
    [err : {NilError, "connection refused"}, status : {200, 201, 500}, body : Payloads]

RECURSIVE toProxyIPsUnfiltered(_)
\* toProxyIPs without the test of the valid field
toProxyIPsUnfiltered(proxies) ==
    IF proxies = <<>> THEN <<>>
    ELSE LET p == proxies[Len(proxies)]
             result == toProxyIPsUnfiltered(SubSeq(proxies, 1, Len(proxies) - 1))
         IN  Append(result,
                    [ID |-> p.ID, Address |-> p.ProxyAddress, Port |-> p.Port,
                     Username |-> p.Username, Password |-> p.Password,
                     Country |-> p.CountryCode, City |-> p.CityName,
                     LastCheckedAt |-> p.LastVerification, CreatedAt |-> p.CreatedAt])

RECURSIVE toProxyIPs(_)
toProxyIPs(proxies) ==
    IF proxies = <<>> THEN <<>>
    ELSE LET p == proxies[Len(proxies)]
             result == toProxyIPs(SubSeq(proxies, 1, Len(proxies) - 1))
         IN  IF ~p.Valid THEN result
             ELSE Append(result,
                    [ID |-> p.ID, Address |-> p.ProxyAddress, Port |-> p.Port,
                     Username |-> p.Username, Password |-> p.Password,
                     Country |-> p.CountryCode, City |-> p.CityName,
                     LastCheckedAt |-> p.LastVerification, CreatedAt |-> p.CreatedAt])

\* the two values GetProxyList returns; an error is <<>> for nil, else its
\* text, followed by the status code for "non-200 status code %d"
Fetched(proxies, err) == [proxies |-> proxies, err |-> err]

\* GetProxyList taking every status below 300 as a success
getProxyListAny2xx(resp) ==
    IF resp.err # NilError
    THEN Fetched(<<>>, <<"webshare: failed to send request", resp.err>>)
    ELSE IF resp.status >= 300
    THEN Fetched(<<>>, <<"webshare: received non-200 status code", resp.status>>)
    ELSE IF ~resp.body.decodes
    THEN Fetched(<<>>, <<"webshare: failed to decode response">>)
    ELSE Fetched(toProxyIPs(resp.body.results), <<>>)

getProxyList(resp) ==
    IF resp.err # NilError
    THEN Fetched(<<>>, <<"webshare: failed to send request", resp.err>>)
    ELSE IF resp.status # 200
    THEN Fetched(<<>>, <<"webshare: received non-200 status code", resp.status>>)
    ELSE IF ~resp.body.decodes
    THEN Fetched(<<>>, <<"webshare: failed to decode response">>)
    ELSE Fetched(toProxyIPs(resp.body.results), <<>>)

\* The ingestion side fetches the proxy list from the provider.
GetProxyList(resp) ==
    /\ last' = Returned("GetProxyList", resp, Nil, getProxyList(resp))
    /\ UNCHANGED <<metrics, zset, now, calls, procs>>

\* calls on the store next to the fetches
MaxStoreCalls == 1

NextProvider ==
    \/ \E resp \in UpstreamResponses : GetProxyList(resp)
    \/ \E proxy \in Proxies : Counted(MaxStoreCalls) /\ AddProxyToPool(proxy, "ok", "ok")
    \/ \E r \in ValidationResults :
          Counted(MaxStoreCalls) /\ UpdateOnResult(Addr1, r, "ok")

SpecProvider == Init /\ [][NextProvider]_vars

(***************************************************************************)
(* SpecLostReply: the scorer alone on one address, the transaction of      *)
(* updateMetrics succeeding, failing before the server executes it, or     *)
(* failing after                                                           *)
(***************************************************************************)
\* the outcomes of EXEC
ExecOutcomes == {"ok", "err", "lost"}

\* calls of UpdateMetricsWithCurrentTime in one behaviour of SpecLostReply
MaxAttempts == 3

NextLostReply ==
    \/ \E r \in ValidationResults, out \in ExecOutcomes :
          Counted(MaxAttempts) /\ UpdateOnResult(Addr1, r, out)
    \/ Tick

SpecLostReply == Init /\ [][NextLostReply]_vars

(***************************************************************************)
(* SpecFeedback: two members on different addresses, callers reporting     *)
(* failed usages of the one and successful usages of the other, and        *)
(* selecting                                                               *)
(***************************************************************************)
\* failed usages reported in a row for the failing proxy
MaxFailureReports == 6
\* successes recorded for the other proxy
MaxSuccessReports == 3

\* the proxy callers fail on, and the proxy callers succeed on
FailingProxy == [Address |-> Addr1, Port |-> 80, Country |-> "US"]

ServingProxy == [Address |-> Addr2, Port |-> 80, Country |-> "DE"]

\* the record of a cold address after the usage is recorded at hour 0
RecordAfterUsage(usage) == updateMetrics(NoHash, LiftUsage(usage), 0)

\* the records the two addresses have when the reports start: none (the
\* proxy was enrolled cold), or that of one usage reported before
FailingHistories ==
    {NoHash} \cup {RecordAfterUsage([Proxy |-> FailingProxy, Success |-> TRUE, Latency |-> l]) :
                      l \in LatencySet}

ServingHistories ==
    {NoHash, RecordAfterUsage([Proxy |-> ServingProxy, Success |-> FALSE, Latency |-> 0])}

\* the pool after each of the two proxies was enrolled cold by
\* AddProxyToPool or upserted by the UpdateProxyUsage of its history
InitFeedback ==
    /\ \E hp \in FailingHistories, hq \in ServingHistories :
          /\ metrics = [a \in Addresses |-> IF a = Addr1 THEN hp ELSE hq]
          /\ zset = ZAdd(ZAdd(EmptyZSet,
                              formatProxyIdentifier(Addr1, 80), CalculateScore(hp, 0, "ok"), "ok"),
                         formatProxyIdentifier(Addr2, 80), CalculateScore(hq, 0, "ok"), "ok")
    /\ now = 0
    /\ last = Returned("init", Nil, Nil, Nil)
    /\ calls = 0
    /\ procs = [p \in Procs |-> Idle]

\* A caller reports a failed usage of the failing proxy.
ReportFailure ==
    /\ getMetrics(metrics[Addr1]).ConsecutiveFails < MaxFailureReports
    /\ UpdateProxyUsage([Proxy |-> FailingProxy, Success |-> FALSE, Latency |-> 0],
                        "ok", "ok", "ok")
    /\ UNCHANGED <<calls, procs>>

\* A caller reports a successful usage of the other proxy.
ReportSuccess ==
    /\ getMetrics(metrics[Addr2]).SuccessCount < MaxSuccessReports
    /\ \E l \in LatencySet :
          UpdateProxyUsage([Proxy |-> ServingProxy, Success |-> TRUE, Latency |-> l],
                           "ok", "ok", "ok")
    /\ UNCHANGED <<calls, procs>>

\* A caller selects without a filter.
SelectUnfiltered ==
    /\ SelectBestProxy([CountryCode |-> "", AllowInsecure |-> TRUE], "ok")
    /\ UNCHANGED <<calls, procs>>

NextFeedback == ReportFailure \/ ReportSuccess \/ SelectUnfiltered \/ Tick

\* Callers keep reporting: weak fairness of the two reports. WF_vars(A) is
\* []<>~ENABLED <<A>>_vars \/ []<><<A>>_vars, written out here with the
\* guard of each report for its ENABLED (a report whose guard holds always
\* changes a counter of the record); the clock keeps running.
KeepReportingFailures ==
    \/ []<>(getMetrics(metrics[Addr1]).ConsecutiveFails >= MaxFailureReports)
    \/ []<><<ReportFailure>>_vars

KeepReportingSuccesses ==
    \/ []<>(getMetrics(metrics[Addr2]).SuccessCount >= MaxSuccessReports)
    \/ []<><<ReportSuccess>>_vars

SpecFeedback ==
    /\ InitFeedback
    /\ [][NextFeedback]_vars
    /\ KeepReportingFailures
    /\ KeepReportingSuccesses
    /\ WF_vars(Tick)

(***************************************************************************)
(* Properties                                                              *)
(***************************************************************************)
\* a step that is a call (the clock's advance is not one)
IsCall(op) == calls' = calls + 1 /\ last'.op = op

AllOk(outs) == \A i \in 1..Len(outs) : outs[i] = "ok"

MemberOf(proxy) == formatProxyIdentifier(proxy.Address, proxy.Port)

AddressOf(member) == parseProxyIdentifier(member).ip

MaxScored(z, member) ==
    member \in DOMAIN z /\ \A m \in DOMAIN z : FLeq(z[m], z[member])

\* C1: an unfiltered SelectBest (no country, allow_insecure) on a non-empty
\* LivePool returns without error the address and port of a member whose
\* score is the maximum over all members.
C1_SelectReturnsMaxScore ==
    (/\ last.op = "SelectBestProxy"
     /\ last.arg = [CountryCode |-> "", AllowInsecure |-> TRUE]
     /\ DOMAIN zset # {})
        => /\ last.ret.err = NilError
           /\ last.ret.proxy # NilProxy
           /\ MaxScored(zset, MemberOf(last.ret.proxy[1]))

\* an unfiltered selection from a pool whose members differ in score
C1_Witness ==
    /\ last.op = "SelectBestProxy"
    /\ last.arg = [CountryCode |-> "", AllowInsecure |-> TRUE]
    /\ last.ret.err = NilError
    /\ \E m \in DOMAIN zset : FLess(zset[m], zset[MemberOf(last.ret.proxy[1])])

\* the country the provider reported for the proxy behind a member, and the
\* anonymity level recorded for its address
CountryOf(member) == (CHOOSE p \in Proxies : MemberOf(p) = member).Country

AnonymityOf(member) == getMetrics(metrics[AddressOf(member)]).AnonymityLevel

Matches(member, req) ==
    /\ req.CountryCode = "" \/ CountryOf(member) = req.CountryCode
    /\ req.AllowInsecure \/ AnonymityOf(member) = Elite

\* C2: SelectBest honours the request filter: it returns the highest-scored
\* member that matches the requested country and, unless allow_insecure, is
\* elite; it returns the no-proxy sentinel exactly when no member matches.
C2_SelectHonoursFilter ==
    last.op = "SelectBestProxy" =>
        LET matching == {m \in DOMAIN zset : Matches(m, last.arg)} IN
        IF matching = {}
        THEN last.ret.proxy = NilProxy /\ last.ret.err = RedisNil
        ELSE /\ last.ret.err = NilError
             /\ last.ret.proxy # NilProxy
             /\ MemberOf(last.ret.proxy[1]) \in matching
             /\ \A m \in matching : FLeq(zset[m], zset[MemberOf(last.ret.proxy[1])])

\* C3: SelectBest on an empty LivePool returns no proxy and the sentinel
\* error, whatever calls came before.
C3_EmptyPoolSentinel ==
    (last.op = "SelectBestProxy" /\ DOMAIN zset = {})
        => last.ret = [proxy |-> NilProxy, err |-> RedisNil]

\* a selection from a pool that is empty after earlier calls
C3_Witness ==
    /\ last.op = "SelectBestProxy"
    /\ DOMAIN zset = {}
    /\ calls > 2
    /\ last.ret.err = RedisNil

\* C4: ReportUsage records exactly one result (success and latency of the
\* usage, anonymity unknown) for the address of the proxy, then reads the
\* score, then upserts the member: on return the member's score is the score
\* of the address computed from the counters that include this usage.
C4_ReportUsageOrder ==
    [][IsCall("UpdateProxyUsage") =>
        LET usage == last'.arg
            a == usage.Proxy.Address
            result == [IsAvailable |-> usage.Success, Latency |-> usage.Latency,
                       Anonymity |-> Unknown]
        IN  /\ metrics'[a] = updateMetrics(metrics[a], result, now)
            /\ MemberOf(usage.Proxy) \in DOMAIN zset'
            /\ zset'[MemberOf(usage.Proxy)] = CalculateScore(metrics'[a], now', "ok")]_vars

\* a usage reported for an address that already had results, after which the
\* member carries a score other than the one it had on enrolment
C4_Witness ==
    /\ last.op = "UpdateProxyUsage"
    /\ ResultsRecorded(metrics[last.arg.Proxy.Address]) > 1
    /\ MemberOf(last.arg.Proxy) \in DOMAIN zset
    /\ zset[MemberOf(last.arg.Proxy)] # initialScore
    /\ zset[MemberOf(last.arg.Proxy)]
           = CalculateScore(metrics[last.arg.Proxy.Address], now, "ok")

\* C5: a proxy enrolled on a fresh address has score 0.5; one successful
\* usage reported for it next, of whatever latency, re-indexes the member
\* with a score above 0.5, and the score of the address is above 0.5.
C5_FeedbackRaisesScore ==
    [][(/\ IsCall("UpdateProxyUsage")
        /\ last'.arg.Success
        /\ last.op = "AddProxyToPool"
        /\ last.arg = last'.arg.Proxy
        /\ ~HExists(metrics[last.arg.Address]))
        => /\ zset[MemberOf(last.arg)] = initialScore
           /\ FLess(initialScore, zset'[MemberOf(last.arg)])
           /\ FLess(initialScore, CalculateScore(metrics'[last.arg.Address], now', "ok"))]_vars

\* the first result of an address is a successful usage of the slowest
\* latency, and its member is ranked above 0.5
C5_Witness ==
    /\ last.op = "UpdateProxyUsage"
    /\ last.arg.Success
    /\ last.arg.Latency = 6000000
    /\ calls > 1
    /\ ResultsRecorded(metrics[last.arg.Proxy.Address]) = 1
    /\ FLess(initialScore, zset[MemberOf(last.arg.Proxy)])

\* C6: Enroll upserts the one member "<address>:<port>" with the current
\* score of the address, 0.5 when the address has no record; no second
\* member for the same address and port appears.
C6_EnrollUpsertsCurrentScore ==
    [][IsCall("AddProxyToPool") =>
        LET proxy == last'.arg
            id == MemberOf(proxy)
        IN  /\ DOMAIN zset' = DOMAIN zset \cup {id}
            /\ zset'[id] = IF HExists(metrics[proxy.Address])
                           THEN CalculateScore(metrics[proxy.Address], now, "ok")
                           ELSE initialScore
            /\ Cardinality({m \in DOMAIN zset' :
                   /\ parseProxyIdentifier(m).ip = proxy.Address
                   /\ parseProxyIdentifier(m).port = proxy.Port}) = 1]_vars

\* a proxy enrolled on an address that has results, with their score
C6_Witness ==
    /\ last.op = "AddProxyToPool"
    /\ HExists(metrics[last.arg.Address])
    /\ zset[MemberOf(last.arg)] # initialScore
    /\ Cardinality(DOMAIN zset) > 1

\* C7: Retire returns nothing to its caller; it removes the metrics of the
\* address whenever the DEL succeeds, also when the ZREM has failed, and the
\* member whenever the ZREM succeeds.
C7_RetireBestEffort ==
    last.op = "RemoveProxyFromPool" =>
        /\ last.ret = Nil
        /\ last.outs[2] = "ok" => ~HExists(metrics[last.arg.Address])
        /\ last.outs[1] = "ok" => MemberOf(last.arg) \notin DOMAIN zset

\* a Retire whose ZREM failed and whose DEL succeeded: the member stays and
\* the metrics are gone
C7_Witness ==
    /\ last.op = "RemoveProxyFromPool"
    /\ last.outs = <<"err", "ok">>
    /\ MemberOf(last.arg) \in DOMAIN zset
    /\ zset[MemberOf(last.arg)] # initialScore
    /\ ~HExists(metrics[last.arg.Address])

\* C8 as stated: every member of LivePool has a ProxyMetrics record for its
\* address.
C8_EveryMemberHasMetrics ==
    \A m \in DOMAIN zset : HExists(metrics[AddressOf(m)])

Removes(call, a) ==
    \/ call.op = "RemoveMetrics" /\ call.arg = a
    \/ call.op = "RemoveProxyFromPool" /\ call.arg.Address = a

\* C8 amended: the member upserted by a ReportUsage whose store calls
\* succeed has a ProxyMetrics record for its address, and a record is lost
\* only through Retire or RemoveMetrics of its address.
C8_ReportedMemberHasMetrics ==
    [][calls' = calls + 1 =>
        /\ (last'.op = "UpdateProxyUsage" /\ AllOk(last'.outs))
              => /\ MemberOf(last'.arg.Proxy) \in DOMAIN zset'
                 /\ HExists(metrics'[last'.arg.Proxy.Address])
        /\ \A a \in Addresses :
              (HExists(metrics[a]) /\ ~Removes(last', a)) => HExists(metrics'[a])]_vars

\* a reported member with its record beside an enrolled member without one
C8_Witness ==
    /\ last.op = "UpdateProxyUsage"
    /\ AllOk(last.outs)
    /\ HExists(metrics[last.arg.Proxy.Address])
    /\ \E m \in DOMAIN zset : ~HExists(metrics[AddressOf(m)])

\* C9: after every sequence of results recorded for a fresh address, the
\* score of the address lies in [0, 1].
C9_ScoreInUnitInterval ==
    LET score == CalculateScore(metrics[Addr1], now, "ok") IN
    FLeq(FZero, score) /\ FLeq(score, FOne)

\* results whose weighted sum exceeds 1 before the clamp
C9_Witness ==
    /\ ResultsRecorded(metrics[Addr1]) > 1
    /\ FLess(FOne, finalScore(getMetrics(metrics[Addr1]), now))
    /\ CalculateScore(metrics[Addr1], now, "ok") = FOne

\* C10: the score of an address without a metrics record is the initial
\* score 0.5: before any result, and after RemoveMetrics whatever results
\* were recorded before it.
C10_NoRecordInitialScore ==
    /\ last.op \in {"init", "RemoveMetrics"}
          => CalculateScore(metrics[Addr1], now, "ok") = initialScore
    /\ (last.op = "Score" /\ ~HExists(metrics[Addr1])) => last.ret = initialScore

\* the score read after the metrics were removed, some time after the start
C10_Witness ==
    /\ last.op = "Score"
    /\ ~HExists(metrics[Addr1])
    /\ last.ret = initialScore
    /\ now > 0

(***************************************************************************)
(* Counters                                                                *)
(***************************************************************************)
\* a step of SpecScorer that records a result for the address
RecordsResult == last'.op = "UpdateOnResult" /\ metrics' # metrics

\* C11: every result recorded for an address adds 1 to success_count and
\* its latency in ms to total_latency_ms when it is a success, and 1 to
\* failure_count and nothing to the other two when it is a failure; a record
\* that does not exist counts from 0. So the three counters are the numbers
\* and the latency sum of the results recorded since the record was created.
C11_CountersCountResults ==
    [][RecordsResult =>
        LET result == last'.arg.Result
            old == getMetrics(metrics[Addr1])
            new == getMetrics(metrics'[Addr1])
        IN  /\ ~HExists(metrics[Addr1])
                 => old.SuccessCount = 0 /\ old.FailureCount = 0 /\ old.TotalLatencyMs = 0
            /\ IF result.IsAvailable
               THEN /\ new.SuccessCount = old.SuccessCount + 1
                    /\ new.FailureCount = old.FailureCount
                    /\ new.TotalLatencyMs
                           = old.TotalLatencyMs + Milliseconds(result.Latency)
               ELSE /\ new.SuccessCount = old.SuccessCount
                    /\ new.FailureCount = old.FailureCount + 1
                    /\ new.TotalLatencyMs = old.TotalLatencyMs]_vars

\* a failure recorded after two successes whose latencies add up to 6100 ms
C11_Witness ==
    /\ last.op = "UpdateOnResult"
    /\ ~last.arg.Result.IsAvailable
    /\ getMetrics(metrics[Addr1]).SuccessCount = 2
    /\ getMetrics(metrics[Addr1]).FailureCount = 1
    /\ getMetrics(metrics[Addr1]).TotalLatencyMs = 6100

\* C12: a success leaves consecutive_failures at 0 and a failure adds 1 to
\* it, so it is the number of failures recorded since the last success; a
\* failure recorded right after a success leaves it at exactly 1.
C12_ConsecutiveFailures ==
    [][RecordsResult =>
        LET result == last'.arg.Result
            old == getMetrics(metrics[Addr1])
            new == getMetrics(metrics'[Addr1])
        IN  /\ result.IsAvailable => new.ConsecutiveFails = 0
            /\ ~result.IsAvailable => new.ConsecutiveFails = old.ConsecutiveFails + 1
            /\ (/\ ~result.IsAvailable
                /\ last.op = "UpdateOnResult"
                /\ last.arg.Result.IsAvailable) => new.ConsecutiveFails = 1]_vars

\* a success recorded after two failures: the count is back at 0
C12_Witness ==
    /\ last.op = "UpdateOnResult"
    /\ last.arg.Result.IsAvailable
    /\ getMetrics(metrics[Addr1]).FailureCount = 2
    /\ getMetrics(metrics[Addr1]).SuccessCount = 1
    /\ getMetrics(metrics[Addr1]).ConsecutiveFails = 0

(***************************************************************************)
(* Concurrency                                                             *)
(***************************************************************************)
\* the goroutines whose call records a result, and those of them whose
\* transaction has been executed
Updaters == {p \in Procs : procs[p].pc # "idle" /\ procs[p].op # "Score"}

Committed == {p \in Updaters : procs[p].pc # "exec"}

AllDone == \A p \in Procs : procs[p].pc = "done"

RECURSIVE SequentialOutcomes(_, _)
\* the hashes that recording the results of the goroutines S, one whole
\* update after the other in any order, makes of h
SequentialOutcomes(h, S) ==
    IF S = {} THEN {h}
    ELSE UNION {SequentialOutcomes(updateMetrics(h, procs[p].result, procs[p].t), S \ {p}) :
                   p \in S}

\* C13: the record of the address is at every moment the outcome of the
\* updates executed so far applied whole, one after the other in some order
\* (so none is lost when all have completed), and what a Score or a
\* ReportUsage has read is such an outcome of some of the updates.
C13_UpdatesAtomic ==
    /\ metrics[Addr1] \in SequentialOutcomes(NoHash, Committed)
    /\ \A p \in Procs :
          "data" \in DOMAIN procs[p]
              => \E S \in SUBSET Updaters : procs[p].data \in SequentialOutcomes(NoHash, S)

\* a success and a failure recorded concurrently, and a Score that read the
\* record between the two
C13_Witness ==
    /\ AllDone
    /\ \E p, q, r \in Procs :
          /\ procs[p].op = "UpdateOnResult" /\ procs[p].result.IsAvailable
          /\ procs[q].op = "UpdateOnResult" /\ ~procs[q].result.IsAvailable
          /\ procs[r].op = "Score"
          /\ ResultsRecorded(procs[r].data) = 1
    /\ ResultsRecorded(metrics[Addr1]) = 2

\* C14: once all concurrent ReportUsage calls on the proxy have completed,
\* the score of its member is the score computed from the final counters of
\* its address.
C14_CachedScoreIsFinal ==
    (AllDone /\ \A p \in Procs : procs[p].op = "UpdateProxyUsage")
        => zset[MemberOf(SharedProxy)] = CalculateScore(metrics[Addr1], now, "ok")

(***************************************************************************)
(* Runs of successes and of failures                                       *)
(***************************************************************************)
\* the record holds k >= 0 successes of the latency and nothing else
SuccessRun(h, latency) ==
    /\ getMetrics(h).FailureCount = 0
    /\ getMetrics(h).TotalLatencyMs = getMetrics(h).SuccessCount * Milliseconds(latency)

\* the record holds k >= 0 failures and nothing else
FailureRun(h) == getMetrics(h).SuccessCount = 0

\* the score of the address as read when its last result was recorded
ScoreWhenRecorded(h) == CalculateScore(h, getMetrics(h).LastSeenTime, "ok")

\* C15: from a cold start, the score read when the (k+1)-th consecutive
\* success of one latency and anonymity elite is recorded is not below the
\* score read when the k-th was recorded (0.5 for k = 0), nor below the
\* score the address had just before the (k+1)-th was recorded.
C15_SuccessRunNonDecreasing ==
    [][(/\ RecordsResult
        /\ last'.arg.Result.IsAvailable
        /\ last'.arg.Result.Anonymity = Elite
        /\ SuccessRun(metrics[Addr1], last'.arg.Result.Latency))
        => /\ FLeq(ScoreWhenRecorded(metrics[Addr1]), ScoreWhenRecorded(metrics'[Addr1]))
           /\ FLeq(CalculateScore(metrics[Addr1], now, "ok"),
                   CalculateScore(metrics'[Addr1], now', "ok"))]_vars

\* six successes of 4 s recorded in a row, hours after the run began
C15_Witness ==
    /\ last.op = "UpdateOnResult"
    /\ SuccessRun(metrics[Addr1], 4000000)
    /\ getMetrics(metrics[Addr1]).SuccessCount = MaxStreak
    /\ now > 0
    /\ FLess(initialScore, ScoreWhenRecorded(metrics[Addr1]))
    /\ FLess(ScoreWhenRecorded(metrics[Addr1]), FOne)

\* the sum of the three terms other than stability
ScoreWithoutStability(m) ==
    FAdd(FAdd(FMul(calculateSuccessRateScore(m), weightSuccessRate),
              FMul(calculateLatencyScore(m), weightLatency)),
         FMul(calculateAnonymityScore(m), weightAnonymity))

\* C16: from a cold start, each further consecutive failure leaves the
\* score no higher than before it, and whenever consecutive_failures is 5
\* or more the score is at most 0.5*successRate + 0.3*latency +
\* 0.15*anonymity.
C16_FailureRunNonIncreasing ==
    [][(RecordsResult /\ ~last'.arg.Result.IsAvailable) =>
        /\ FailureRun(metrics[Addr1])
              => FLeq(CalculateScore(metrics'[Addr1], now', "ok"),
                      CalculateScore(metrics[Addr1], now, "ok"))
        /\ getMetrics(metrics'[Addr1]).ConsecutiveFails >= maxConsecutiveFails
              => FLeq(CalculateScore(metrics'[Addr1], now', "ok"),
                      ScoreWithoutStability(getMetrics(metrics'[Addr1])))]_vars

\* six failures in a row from the cold start: the score is down to the
\* anonymity term of an unknown level
C16_Witness ==
    /\ last.op = "UpdateOnResult"
    /\ FailureRun(metrics[Addr1])
    /\ getMetrics(metrics[Addr1]).ConsecutiveFails = MaxStreak
    /\ CalculateScore(metrics[Addr1], now, "ok") = <<3, 200>>

(***************************************************************************)
(* The scoring formula                                                     *)
(***************************************************************************)
FSub(x, y) == FAdd(x, <<0 - y[1], y[2]>>)

FWithin(x, y, delta) == FLeq(FSub(x, y), delta) /\ FLeq(FSub(y, x), delta)

\* the score the formula gives to a record read at hour t
FormulaScore(h, t) ==
    LET sc == IF "success_count" \in DOMAIN h THEN h["success_count"] ELSE 0
        fc == IF "failure_count" \in DOMAIN h THEN h["failure_count"] ELSE 0
        total == IF "total_latency_ms" \in DOMAIN h THEN h["total_latency_ms"] ELSE 0
        cf == IF "consecutive_fails" \in DOMAIN h THEN h["consecutive_fails"] ELSE 0
        level == IF "anonymity_level" \in DOMAIN h THEN h["anonymity_level"] ELSE "unknown"
        successRate == Frac(sc, sc + fc)
        latency == IF sc = 0 THEN FZero
                   ELSE FMax(FZero, FSub(FOne, Frac(total, sc * 5000)))
        anonymity == CASE level = "elite" -> FOne
                       [] level = "anonymous" -> <<7, 10>>
                       [] level = "transparent" -> <<3, 10>>
                       [] OTHER -> <<1, 10>>
        recencyBonus == IF "last_success_time" \in DOMAIN h
                        THEN FMax(FZero, FSub(FOne, Frac(t - h["last_success_time"], 24)))
                        ELSE FZero
        stability == FMul(FSub(FOne, FMin(FOne, Frac(cf, 5))),
                          FAdd(<<1, 2>>, FMul(<<1, 2>>, recencyBonus)))
        sum == FAdd(FAdd(FMul(<<50, 100>>, successRate), FMul(<<30, 100>>, latency)),
                    FAdd(FMul(<<15, 100>>, anonymity), FMul(<<5, 100>>, stability)))
    IN  FMax(FZero, FMin(FOne, sum))

\* the two records of TestQualityScorer_CalculateScore
GoodProxyRecord == RecordOf(100, 5, 200, Elite, 1, 0)

BadProxyRecord == RecordOf(10, 90, 4000, Transparent, 48, 8)

\* C17: the score read of a record with at least one result is the clamped
\* weighted sum 0.50*successRate + 0.30*latency + 0.15*anonymity +
\* 0.05*stability of the formula; the record (100, 5, 20000 ms, elite, 1 h
\* ago, 0) scores 0.963 and (10, 90, 40000 ms, transparent, 48 h ago, 8)
\* scores 0.155, each within 0.01.
C17_ScoreFormula ==
    last.op = "Score" =>
        /\ last.ret = FormulaScore(metrics[Addr1], now)
        /\ metrics[Addr1] = GoodProxyRecord => FWithin(last.ret, <<963, 1000>>, <<1, 100>>)
        /\ metrics[Addr1] = BadProxyRecord => FWithin(last.ret, <<155, 1000>>, <<1, 100>>)

\* the score of the good proxy of the test was read
C17_Witness ==
    /\ last.op = "Score"
    /\ metrics[Addr1] = GoodProxyRecord
    /\ getMetrics(metrics[Addr1]).TotalLatencyMs = 20000
    /\ FWithin(last.ret, <<963, 1000>>, <<1, 100>>)

(***************************************************************************)
(* Member identifiers                                                      *)
(***************************************************************************)
\* the position of the last ":" of a text that has one
LastColonOf(text) ==
    CHOOSE i \in 1..Len(text) :
        text[i] = 58 /\ \A j \in (i + 1)..Len(text) : text[j] # 58

\* C18: parsing the member that formatProxyIdentifier made of an address
\* (with or without ":" in it) and a port succeeds and returns that address
\* and that port; the address is the text before the last ":".
C18_MemberRoundTrip ==
    \A ip \in IdentAddresses, port \in IdentPorts :
        (last.op = "parseProxyIdentifier" /\ last.arg = formatProxyIdentifier(ip, port))
            => /\ last.ret = [ok |-> TRUE, ip |-> ip, port |-> port]
               /\ Len(last.ret.ip) = LastColonOf(last.arg) - 1

\* the member of the IPv6 address "::1" and port 8080 parsed back
C18_Witness ==
    /\ last.op = "parseProxyIdentifier"
    /\ last.arg = <<58, 58, 49, 58, 56, 48, 56, 48>>
    /\ last.ret = [ok |-> TRUE, ip |-> <<58, 58, 49>>, port |-> 8080]

\* the text is one or more decimal digits with a value in [1, 65535]
DecimalPort(text) ==
    /\ Len(text) > 0
    /\ \A i \in 1..Len(text) : text[i] \in 48..57
    /\ UintValue(text) \in 1..65535

\* C19: parsing a member succeeds only when the text after its last ":" is
\* a decimal port in [1, 65535]; a member without ":", with a port that is
\* not decimal, or with a port outside the range (0 included) is rejected.
C19_PortRangeEnforced ==
    (last.op = "parseProxyIdentifier" /\ last.ret.ok)
        => /\ \E i \in 1..Len(last.arg) : last.arg[i] = 58
           /\ DecimalPort(SubSeq(last.arg, LastColonOf(last.arg) + 1, Len(last.arg)))

\* C20: when the highest-scored member of LivePool cannot be parsed and a
\* well-formed member satisfies the request, SelectBest returns without
\* error a well-formed member that satisfies the request.
C20_MalformedMemberSkipped ==
    (/\ last.op = "SelectBestProxy"
     /\ ZRevRange00(zset) # <<>>
     /\ ~parseProxyIdentifier(ZRevRange00(zset)[1]).ok
     /\ \E m \in DOMAIN zset : parseProxyIdentifier(m).ok /\ Matches(m, last.arg))
        => /\ last.ret.err = NilError
           /\ last.ret.proxy # NilProxy
           /\ MemberOf(last.ret.proxy[1]) \in DOMAIN zset
           /\ Matches(MemberOf(last.ret.proxy[1]), last.arg)


\* the error message the five checks on the exchange decide, "" when none
\* of them matches
ExchangeMessage(target, net) ==
    IF net.err = "context deadline exceeded" THEN <<"context deadline exceeded">>
    ELSE IF net.err # NilError THEN <<net.err>>
    ELSE IF net.status # 200 THEN <<"bad status code: ", net.status>>
    ELSE IF net.readErr THEN <<"failed to read response body">>
    ELSE IF target.MustContain # <<>> /\ ~net.body.marker
    THEN <<"response content mismatch">>
    ELSE <<>>

\* the error message of a probe that is given up before the request is
\* sent, "" when the request is sent
RequestMessage(proxy, target) ==
    IF urlParseFails(proxyURLStr(proxy)) THEN <<"invalid proxy format">>
    ELSE IF urlParseFails(target.URL) THEN <<"failed to create request">>
    ELSE <<>>

\* C21 as stated: the result of Validate is decided by the first matching
\* check among deadline exceeded, other transport error, status other than
\* 200, body read error and must_contain missing from the body; the probe
\* is available exactly when none matches, and the error message is empty
\* exactly when it is available.
C21_FiveChecksDecide ==
    last.op = "Validate" =>
        /\ last.ret.ErrorMessage = ExchangeMessage(last.arg.target, last.arg.net)
        /\ last.ret.IsAvailable = (ExchangeMessage(last.arg.target, last.arg.net) = <<>>)
        /\ last.ret.IsAvailable = (last.ret.ErrorMessage = <<>>)

\* C21 amended: two checks come before the five: a proxy whose address
\* gives no parseable URL is "invalid proxy format" and a target URL no
\* request can be built from is "failed to create request"; the result of
\* Validate is decided by the first matching check of the seven, the probe
\* is available exactly when none matches, and the error message is empty
\* exactly when it is available.
C21_SevenChecksDecide ==
    last.op = "Validate" =>
        LET early == RequestMessage(last.arg.proxy, last.arg.target)
            message == IF early # <<>> THEN early
                       ELSE ExchangeMessage(last.arg.target, last.arg.net)
        IN  /\ last.ret.ErrorMessage = message
            /\ last.ret.IsAvailable = (message = <<>>)
            /\ last.ret.IsAvailable = (last.ret.ErrorMessage = <<>>)

\* a 404 response whose body misses must_contain is a bad status code
C21_Witness ==
    /\ last.op = "Validate"
    /\ RequestMessage(last.arg.proxy, last.arg.target) = <<>>
    /\ last.arg.net.err = NilError
    /\ last.arg.net.status = 404
    /\ last.arg.target.MustContain # <<>>
    /\ ~last.arg.net.body.marker
    /\ last.ret = Unavailable(<<"bad status code: ", 404>>, last.arg.net.latency)


\* a text with its upper case ASCII letters replaced by lower case ones
ToLower(s) == [i \in 1..Len(s) |-> IF s[i] >= 65 /\ s[i] <= 90 THEN s[i] + 32 ELSE s[i]]

\* the proxy headers: Via, X-Forwarded-For, Forwarded, X-Proxy-Id,
\* Proxy-Connection
KnownProxyHeaders ==
    { <<86, 105, 97>>,
      <<88, 45, 70, 111, 114, 119, 97, 114, 100, 101, 100, 45, 70, 111, 114>>,
      <<70, 111, 114, 119, 97, 114, 100, 101, 100>>,
      <<88, 45, 80, 114, 111, 120, 121, 45, 73, 100>>,
      <<80, 114, 111, 120, 121, 45, 67, 111, 110, 110, 101, 99, 116, 105, 111, 110>> }

\* the reflected headers hold the public IP of the validator
LeaksPublicIP(v, body) ==
    /\ v.publicIP # <<>>
    /\ \E key \in DOMAIN body.headers : Contains(body.headers[key], v.publicIP)

\* a reflected header key is a proxy header up to letter case
HasProxyHeaderAnyCase(body) ==
    \E key \in DOMAIN body.headers, known \in KnownProxyHeaders :
        ToLower(key) = ToLower(known)

\* the claimed classification of a body: the level it must have
ClassifiedAs(v, body, level) ==
    IF ~body.decodes THEN level = Unknown
    ELSE IF LeaksPublicIP(v, body) THEN level = Transparent
    ELSE IF \E known \in KnownProxyHeaders : known \in DOMAIN body.headers
    THEN level = Anonymous
    ELSE ~HasProxyHeaderAnyCase(body) => level = Elite

\* C22: the anonymity level of an available probe is transparent when the
\* public IP of the validator is non-empty and occurs in a reflected header
\* value, even next to a proxy header; otherwise anonymous when a proxy
\* header is present under its name; otherwise elite when no key is a proxy
\* header; and unknown, the probe staying available, when the body holds
\* must_contain and does not decode.
C22_AnonymityPrecedence ==
    /\ last.op = "detectAnonymity" =>
           ClassifiedAs(last.arg.v, last.arg.body, last.ret)
    /\ (last.op = "Validate" /\ last.ret.IsAvailable) =>
           ClassifiedAs(last.arg.v, last.arg.net.body, last.ret.Anonymity)
    /\ (/\ last.op = "Validate"
        /\ RequestMessage(last.arg.proxy, last.arg.target) = <<>>
        /\ ExchangeMessage(last.arg.target, last.arg.net) = <<>>
        /\ ~last.arg.net.body.decodes) =>
           (last.ret.IsAvailable /\ last.ret.Anonymity = Unknown)

\* an available probe whose Via header holds the public IP is transparent
C22_Witness ==
    /\ last.op = "Validate"
    /\ last.ret.IsAvailable
    /\ last.arg.net.body.decodes
    /\ <<86, 105, 97>> \in DOMAIN last.arg.net.body.headers
    /\ LeaksPublicIP(last.arg.v, last.arg.net.body)
    /\ last.ret.Anonymity = Transparent

\* C23: a reflected header whose key is Via, X-Forwarded-For, Forwarded,
\* X-Proxy-Id or Proxy-Connection in any letter case, and no value of which
\* holds the public IP, gives anonymous, never elite.
C23_HeaderKeyAnyCase ==
    (/\ last.op = "detectAnonymity"
     /\ last.arg.body.decodes
     /\ HasProxyHeaderAnyCase(last.arg.body)
     /\ ~LeaksPublicIP(last.arg.v, last.arg.body)) => last.ret = Anonymous


\* the positions of the entries of a payload that are marked valid
ValidPositions(results) == {i \in 1..Len(results) : results[i].Valid}

\* the position in the payload of its k-th entry marked valid
PositionOfValid(results, k) ==
    CHOOSE i \in ValidPositions(results) :
        Cardinality({j \in ValidPositions(results) : j <= i}) = k

\* a record of the batch carries the fields of an upstream entry
MappedFrom(record, entry) ==
    /\ record.ID = entry.ID
    /\ record.Address = entry.ProxyAddress
    /\ record.Port = entry.Port
    /\ record.Username = entry.Username
    /\ record.Password = entry.Password
    /\ record.Country = entry.CountryCode
    /\ record.City = entry.CityName

\* the batch is the valid entries of the payload, in upstream order
IsBatchOf(batch, results) ==
    /\ Len(batch) = Cardinality(ValidPositions(results))
    /\ \A k \in 1..Len(batch) :
          MappedFrom(batch[k], results[PositionOfValid(results, k)])

\* the fetch was answered with status 200 and a decodable body
Fetches(call) ==
    /\ call.op = "GetProxyList"
    /\ call.arg.err = NilError
    /\ call.arg.status = 200
    /\ call.arg.body.decodes

\* C24: for a payload with N entries marked valid and M marked invalid
\* GetProxyList returns the N valid entries, in upstream order, each mapped
\* field for field; no invalid entry is returned and no valid one dropped.
C24_ValidEntriesInOrder ==
    Fetches(last) =>
        /\ last.ret.err = <<>>
        /\ IsBatchOf(last.ret.proxies, last.arg.body.results)

\* a payload of a valid, an invalid and another valid entry gives the two
\* valid entries in that order
C24_Witness ==
    /\ Fetches(last)
    /\ Len(last.arg.body.results) = 3
    /\ ValidPositions(last.arg.body.results) = {1, 3}
    /\ last.arg.body.results[1] # last.arg.body.results[3]
    /\ Len(last.ret.proxies) = 2
    /\ MappedFrom(last.ret.proxies[1], last.arg.body.results[1])
    /\ MappedFrom(last.ret.proxies[2], last.arg.body.results[3])

\* a fetch returns an error and no records
Discarded(call) == call.ret.err # <<>> /\ call.ret.proxies = <<>>

\* a fetch returns the batch of its payload and no error
Delivered(call) ==
    call.ret.err = <<>> /\ IsBatchOf(call.ret.proxies, call.arg.body.results)

\* C25 as stated: a fetch answered with a status outside 200..299 or with a
\* body that does not decode returns an error (with the status code in the
\* first case) and no records, and changes no metrics and no member of the
\* pool; a fetch answered with a status in 200..299 and a decodable body
\* returns the batch without error.
C25_Non2xxDiscarded ==
    [][(last'.op = "GetProxyList" /\ last' # last /\ last'.arg.err = NilError) =>
          IF last'.arg.status < 200 \/ last'.arg.status > 299
          THEN /\ Discarded(last')
               /\ Len(last'.ret.err) = 2 /\ last'.ret.err[2] = last'.arg.status
               /\ UNCHANGED <<metrics, zset>>
          ELSE IF ~last'.arg.body.decodes
          THEN Discarded(last') /\ UNCHANGED <<metrics, zset>>
          ELSE Delivered(last')]_vars

\* C25 amended: a fetch answered with a status other than 200 (201 and the
\* other 2xx included) or with a body that does not decode returns an error
\* (with the status code in the first case) and no records, and changes no
\* metrics and no member of the pool; a fetch answered with status 200 and
\* a decodable body returns the batch without error.
C25_Non200Discarded ==
    [][(last'.op = "GetProxyList" /\ last' # last /\ last'.arg.err = NilError) =>
          IF last'.arg.status # 200
          THEN /\ Discarded(last')
               /\ Len(last'.ret.err) = 2 /\ last'.ret.err[2] = last'.arg.status
               /\ UNCHANGED <<metrics, zset>>
          ELSE IF ~last'.arg.body.decodes
          THEN Discarded(last') /\ UNCHANGED <<metrics, zset>>
          ELSE Delivered(last')]_vars

\* a fetch answered with status 500 and a payload of valid entries is
\* discarded while the pool holds a member
C25_Witness ==
    /\ last.op = "GetProxyList"
    /\ last.arg.err = NilError
    /\ last.arg.status = 500
    /\ ValidPositions(last.arg.body.results) # {}
    /\ Discarded(last)
    /\ last.ret.err = <<"webshare: received non-200 status code", 500>>
    /\ zset # EmptyZSet


\* a step in which UpdateMetricsWithCurrentTime is called and EXEC fails
FailedUpdate == IsCall("UpdateOnResult") /\ last'.outs # <<"ok">>

\* the record new is the record old with the result recorded at time t
WholeUpdate(old, new, result, t) ==
    /\ new.LastSeenTime = t
    /\ IF result.IsAvailable
       THEN /\ new.SuccessCount = old.SuccessCount + 1
            /\ new.FailureCount = old.FailureCount
            /\ new.TotalLatencyMs = old.TotalLatencyMs + Milliseconds(result.Latency)
            /\ new.LastSuccessTime = t
            /\ new.AnonymityLevel = result.Anonymity
            /\ new.ConsecutiveFails = 0
       ELSE /\ new.SuccessCount = old.SuccessCount
            /\ new.FailureCount = old.FailureCount + 1
            /\ new.TotalLatencyMs = old.TotalLatencyMs
            /\ new.LastSuccessTime = old.LastSuccessTime
            /\ new.AnonymityLevel = old.AnonymityLevel
            /\ new.ConsecutiveFails = old.ConsecutiveFails + 1

\* C26 as stated: an UpdateOnResult whose transaction fails or is cancelled
\* returns no error and leaves every field of the record of the address as
\* it was before the call.
C26_FailedUpdateChangesNothing ==
    [][FailedUpdate => last'.ret = Nil /\ metrics' = metrics]_vars

\* C26 amended: an UpdateOnResult whose transaction fails or is cancelled
\* returns no error and leaves the record of the address either as it was
\* before the call, or with the whole update applied when the server had
\* executed the transaction before the failure; never with a part of it.
C26_FailedUpdateAllOrNothing ==
    [][FailedUpdate =>
          /\ last'.ret = Nil
          /\ \A a \in Addresses \ {last'.arg.Address} : metrics'[a] = metrics[a]
          /\ \/ metrics' = metrics
             \/ WholeUpdate(getMetrics(metrics[last'.arg.Address]),
                            getMetrics(metrics'[last'.arg.Address]),
                            last'.arg.Result, now)]_vars

\* a success whose reply was lost on a record of one failure: the record
\* holds the success, and the failure run is reset
C26_Witness ==
    /\ last.op = "UpdateOnResult"
    /\ last.outs = <<"lost">>
    /\ last.arg.Result.IsAvailable
    /\ getMetrics(metrics[Addr1]).FailureCount = 1
    /\ getMetrics(metrics[Addr1]).SuccessCount = 1
    /\ getMetrics(metrics[Addr1]).ConsecutiveFails = 0


\* a step in which the result of the failed call before it is applied
\* again, and EXEC succeeds
RetriedUpdate ==
    /\ last.op = "UpdateOnResult"
    /\ last.outs # <<"ok">>
    /\ IsCall("UpdateOnResult")
    /\ last'.arg = last.arg
    /\ last'.outs = <<"ok">>

\* the counters of a record
CountersOf(h) ==
    <<getMetrics(h).SuccessCount, getMetrics(h).FailureCount,
      getMetrics(h).TotalLatencyMs, getMetrics(h).ConsecutiveFails>>

\* C29: when an UpdateOnResult hits a store error and the same result is
\* applied again, the record ends as if the result had been recorded once:
\* the retry records the result when the failed call left the record as it
\* was, and adds nothing to the counters when the failed call had recorded
\* it.
C29_RetryRecordsOnce ==
    [][RetriedUpdate =>
          IF last.outs = <<"err">>
          THEN WholeUpdate(getMetrics(metrics[last.arg.Address]),
                           getMetrics(metrics'[last.arg.Address]),
                           last.arg.Result, now)
          ELSE CountersOf(metrics'[last.arg.Address])
                   = CountersOf(metrics[last.arg.Address])]_vars


\* C27: Score returns 0.0 whenever the read of the metrics of the address
\* fails with a store error other than a miss; so AddProxyToPool and
\* UpdateProxyUsage whose read of the score failed index the member with
\* 0.0 when their ZADD succeeds, and leave the pool as it is when it fails.
C27_UnmeasuredScoresZero ==
    [][/\ (IsCall("Score") /\ last'.outs = <<"err">>) => last'.ret = FZero
       /\ (IsCall("AddProxyToPool") /\ last'.outs[1] = "err") =>
              IF last'.outs[2] = "ok"
              THEN /\ MemberOf(last'.arg) \in DOMAIN zset'
                   /\ zset'[MemberOf(last'.arg)] = FZero
              ELSE zset' = zset
       /\ (IsCall("UpdateProxyUsage") /\ last'.outs[2] = "err") =>
              IF last'.outs[3] = "ok"
              THEN /\ MemberOf(last'.arg.Proxy) \in DOMAIN zset'
                   /\ zset'[MemberOf(last'.arg.Proxy)] = FZero
              ELSE zset' = zset]_vars

\* a proxy whose address has a record of one success is enrolled with 0.0
\* because the read of the record failed
C27_Witness ==
    /\ last.op = "AddProxyToPool"
    /\ last.outs = <<"err", "ok">>
    /\ getMetrics(metrics[last.arg.Address]).SuccessCount = 1
    /\ FLess(initialScore, CalculateScore(metrics[last.arg.Address], now, "ok"))
    /\ zset[MemberOf(last.arg)] = FZero


\* the record of the address after r1 and then r2 are recorded on it
RecordedInOrder(r1, r2) ==
    updateMetrics(updateMetrics(metrics[Addr1], r1, now), r2, now)

\* the three counters the score aggregates
AggregatesOf(h) ==
    <<getMetrics(h).SuccessCount, getMetrics(h).FailureCount,
      getMetrics(h).TotalLatencyMs>>

\* C28: for any two results recorded for the same address from the same
\* record, both orders give the same success_count, failure_count and
\* total_latency_ms.
C28_CountersCommute ==
    \A r1, r2 \in ValidationResults :
        AggregatesOf(RecordedInOrder(r1, r2)) = AggregatesOf(RecordedInOrder(r2, r1))

\* on a record that holds a recorded success, a success and a failure give
\* different records in the two orders, and the same counters
C28_Witness ==
    /\ last.op = "UpdateOnResult"
    /\ getMetrics(metrics[Addr1]).SuccessCount = 1
    /\ getMetrics(metrics[Addr1]).TotalLatencyMs = 100
    /\ \E r1, r2 \in ValidationResults :
          /\ r1.IsAvailable /\ ~r2.IsAvailable /\ r1.Latency = 6000000
          /\ RecordedInOrder(r1, r2) # RecordedInOrder(r2, r1)
          /\ AggregatesOf(RecordedInOrder(r1, r2)) = <<2, 1, 6100>>
          /\ AggregatesOf(RecordedInOrder(r2, r1)) = <<2, 1, 6100>>


\* C30: once Retire(p) has committed, p is not a member of the pool and its
\* address has no metrics until a later Enroll(p): a ReportUsage for p that
\* arrives right after the Retire does not put p back into the pool.
C30_RetiredStaysOut ==
    [][(/\ last.op = "RemoveProxyFromPool"
        /\ AllOk(last.outs)
        /\ IsCall("UpdateProxyUsage")
        /\ last'.arg.Proxy = last.arg) =>
          /\ MemberOf(last.arg) \notin DOMAIN zset'
          /\ ~HExists(metrics'[last.arg.Address])]_vars


\* C31: ports of one address share one reputation: between calls, any two
\* members of the pool with the same address have the same score in the
\* pool.
C31_PortsShareScore ==
    \A m1, m2 \in DOMAIN zset :
        AddressOf(m1) = AddressOf(m2) => zset[m1] = zset[m2]


\* C32: a ReportUsage leaves the anonymity_level of the address as the last
\* successful probe set it, so it does not lower the anonymity sub-score.
C32_UsageKeepsAnonymity ==
    [][(/\ IsCall("UpdateProxyUsage")
        /\ fieldAnonymityLevel \in DOMAIN metrics[last'.arg.Proxy.Address]) =>
          LET old == getMetrics(metrics[last'.arg.Proxy.Address])
              new == getMetrics(metrics'[last'.arg.Proxy.Address])
          IN  /\ new.AnonymityLevel = old.AnonymityLevel
              /\ FLeq(calculateAnonymityScore(old), calculateAnonymityScore(new))]_vars


\* the score in the pool of the failing proxy is below that of the other
FailingBelowServing ==
    FLess(zset[MemberOf(FailingProxy)], zset[MemberOf(ServingProxy)])

C34_RecordInvariant ==
    \A a \in Addresses :
        LET m == getMetrics(metrics[a])
        IN  /\ 0 <= m.ConsecutiveFails
            /\ m.ConsecutiveFails <= m.FailureCount
            /\ m.SuccessCount = 0 => m.TotalLatencyMs = 0
            /\ (m.LastSuccessTime # ZeroTime) <=> (m.SuccessCount > 0)

\* a record of a success between two failures: one failure in a row of two
\* failures, and a success time
C34_Witness ==
    /\ last.op = "UpdateOnResult"
    /\ ~last.arg.Result.IsAvailable
    /\ getMetrics(metrics[Addr1]).FailureCount = 2
    /\ getMetrics(metrics[Addr1]).ConsecutiveFails = 1
    /\ getMetrics(metrics[Addr1]).SuccessCount = 1
    /\ getMetrics(metrics[Addr1]).LastSuccessTime # ZeroTime


\* the call changes no member of the pool other than that of the proxy
OtherMembersKept(proxy) ==
    \A member \in (DOMAIN zset \cup DOMAIN zset') \ {MemberOf(proxy)} :
        /\ member \in DOMAIN zset
        /\ member \in DOMAIN zset'
        /\ zset'[member] = zset[member]

\* the call changes the metrics of no address other than that of the proxy
OtherMetricsKept(proxy) ==
    \A a \in Addresses \ {proxy.Address} : metrics'[a] = metrics[a]

\* C35: SelectBest and Score change neither the pool nor a metrics record;
\* Enroll changes no metrics record; Enroll, ReportUsage and Retire of a
\* proxy leave the membership and the score of every other member and the
\* metrics of every other address as they were.
C35_Frame ==
    [][/\ (IsCall("SelectBestProxy") \/ IsCall("Score")) =>
              UNCHANGED <<metrics, zset>>
       /\ IsCall("AddProxyToPool") =>
              /\ metrics' = metrics
              /\ OtherMembersKept(last'.arg)
       /\ IsCall("UpdateProxyUsage") =>
              /\ OtherMembersKept(last'.arg.Proxy)
              /\ OtherMetricsKept(last'.arg.Proxy)
       /\ IsCall("RemoveProxyFromPool") =>
              /\ OtherMembersKept(last'.arg)
              /\ OtherMetricsKept(last'.arg)]_vars

\* the proxy on port 80 of an address is retired: its other port stays in
\* the pool, and the record of the other address stays
C35_Witness ==
    /\ last.op = "RemoveProxyFromPool"
    /\ last.arg.Address = Addr1
    /\ last.arg.Port = 80
    /\ MemberOf([Address |-> Addr1, Port |-> 81]) \in DOMAIN zset
    /\ HExists(metrics[Addr2])
    /\ ~HExists(metrics[Addr1])

====
